---------------------------- MODULE Spec2Model ----------------------------
(***************************************************************************)
(* Model of tenant_power.py: the schedule-generation engine of the         *)
(* kube-green tenant power tool.                                           *)
(*                                                                         *)
(* Text is modelled as a sequence of tokens.  A token is one character     *)
(* (a digit, "-", ",", ":" or a blank) or one maximal run of letters (a    *)
(* word such as "lunes").  Two adjacent words of a sequence stand for the  *)
(* run of letters made of both, which is no day name.                      *)
(***************************************************************************)
EXTENDS FiniteSets, Integers, Sequences, TLC

VARIABLES
    wdPc,       \* position of the weekday-normalizer pipeline
    wdRaw,      \* the weekday spec given
    wdKube,     \* human_weekdays_to_kube(wdRaw)
    wdKube2,    \* human_weekdays_to_kube of the former result
    wdHuman,    \* kube_weekdays_to_human(wdKube)
    wdExpand,   \* _expand_weekdays_str(wdRaw)
    wdExpandK,  \* _expand_weekdays_str(wdKube)
    wdA,        \* the first day shift applied to wdKube
    wdB,        \* the second day shift
    wdShift1,   \* _shift_weekdays_str(wdKube, wdA)
    wdShift2,   \* _shift_weekdays_str(wdShift1, wdB)
    wdShiftSum, \* _shift_weekdays_str(wdKube, (wdA + wdB) % 7)
    tmPc,       \* position of the time-converter pipeline
    tmLocal,    \* the local HH:MM given
    tmUtc,      \* to_utc_hhmm_and_dayshift(tmLocal)
    tmN,        \* the minutes added
    tmPlus,     \* add_minutes_hhmm(tmUtc.hhmm, tmN)
    tmChain,    \* the staggered wake times computed from tmUtc.hhmm
    nsPc,       \* position of the namespace-filter pipeline
    nsArg,      \* the --namespaces value given
    nsSel,      \* normalize_namespaces(nsArg)
    nsWarn,     \* the tokens normalize_namespaces warned about
    nsList,     \* namespaces_for_tenant(tenant, nsArg)
    pc,         \* position of main
    args,       \* the command line of the run
    objs,       \* the objects make_all_objects_for_tenant returned
    yaml,       \* the documents rendered by to_yaml_docs and written or printed
    stderr,     \* what the run reported as an error
    exitCode,   \* the exit status of the process, "running" before it ends
    output,        \* what the run printed to stdout or wrote to a file, in order
    calls,      \* the kubectl invocations made, in order, each with its outcome
    cluster     \* per namespace of the tenant: its SleepInfos and Secrets

shVars == <<wdA, wdB, wdShift1, wdShift2, wdShiftSum>>

wdVars == <<wdPc, wdRaw, wdKube, wdKube2, wdHuman, wdExpand, wdExpandK, shVars>>

tmVars == <<tmPc, tmLocal, tmUtc, tmN, tmPlus, tmChain>>

nsVars == <<nsPc, nsArg, nsSel, nsWarn, nsList>>

mainVars == <<pc, args, objs, yaml, stderr, exitCode, output, calls, cluster>>

vars == <<wdVars, tmVars, nsVars, mainVars>>

-----------------------------------------------------------------------------
(* Results of a call: a value, or the ValueError it raised.                *)

Ok(v) == [ok |-> TRUE, val |-> v]

Err(v) == [ok |-> FALSE, val |-> v]

Unset == [ok |-> FALSE, val |-> <<"unset">>]

-----------------------------------------------------------------------------
(* Characters and words.                                                   *)

DigitSeq == <<"0", "1", "2", "3", "4", "5", "6", "7", "8", "9">>

Digits == {DigitSeq[i] : i \in 1..10}

IsDigit(c) == c \in Digits

DigitVal(c) == (CHOOSE i \in 1..10 : DigitSeq[i] = c) - 1

IsSpace(c) == c = " "

Punct == {"-", ",", ":", " "}

IsWord(c) == c \notin Digits /\ c \notin Punct

\* a variant that keeps the case of the letters
LowerWord_asis(w) == w

\* str.lower() on the words of the model's vocabulary
LowerWord(w) ==
    CASE w = "LUNES" -> "lunes"
      [] w = "Viernes" -> "viernes"
      [] w = "SÁBADO" -> "sábado"
      [] w = "Miércoles" -> "miércoles"
      [] w = "APPS" -> "apps"
      [] w = "Rocket" -> "rocket"
      [] OTHER -> w

\* _strip_accents: NFD decomposition, combining marks dropped
StripAccentsWord(w) ==
    CASE w = "sábado" -> "sabado"
      [] w = "SÁBADO" -> "SABADO"
      [] w = "miércoles" -> "miercoles"
      [] w = "Miércoles" -> "Miercoles"
      [] OTHER -> w

\* str.lower()
RECURSIVE Lower(_)
Lower(s) == IF s = <<>> THEN <<>> ELSE <<LowerWord(Head(s))>> \o Lower(Tail(s))

RECURSIVE _strip_accents(_)
_strip_accents(s) ==
    IF s = <<>> THEN <<>> ELSE <<StripAccentsWord(Head(s))>> \o _strip_accents(Tail(s))

\* str.replace(" ", "")
RECURSIVE RemoveSpaces(_)
RemoveSpaces(s) ==
    IF s = <<>> THEN <<>>
    ELSE IF Head(s) = " " THEN RemoveSpaces(Tail(s))
    ELSE <<Head(s)>> \o RemoveSpaces(Tail(s))

RECURSIVE LStrip(_)
LStrip(s) == IF s # <<>> /\ IsSpace(Head(s)) THEN LStrip(Tail(s)) ELSE s

RECURSIVE RStrip(_)
RStrip(s) ==
    IF s # <<>> /\ IsSpace(s[Len(s)]) THEN RStrip(SubSeq(s, 1, Len(s) - 1)) ELSE s

\* str.strip()
Strip(s) == RStrip(LStrip(s))

Contains(s, c) == \E i \in 1..Len(s) : s[i] = c

IndexOf(s, c) == CHOOSE i \in 1..Len(s) : s[i] = c /\ \A j \in 1..(i - 1) : s[j] # c

\* str.split(sep): every separator ends a part, empty parts kept
RECURSIVE Split(_, _)
Split(s, sep) ==
    IF ~Contains(s, sep) THEN <<s>>
    ELSE LET i == IndexOf(s, sep)
         IN  <<SubSeq(s, 1, i - 1)>> \o Split(SubSeq(s, i + 1, Len(s)), sep)

\* str.split(sep, 1) of a text that holds sep
SplitFirst(s, sep) ==
    LET i == IndexOf(s, sep)
    IN  <<SubSeq(s, 1, i - 1), SubSeq(s, i + 1, Len(s))>>

\* sep.join(parts)
RECURSIVE Join(_, _)
Join(parts, sep) ==
    IF parts = <<>> THEN <<>>
    ELSE IF Len(parts) = 1 THEN parts[1]
    ELSE parts[1] \o <<sep>> \o Join(Tail(parts), sep)

\* int(text): blanks around the digits are allowed, anything else raises
IntOk(t) ==
    LET u == Strip(t) IN u # <<>> /\ \A i \in 1..Len(u) : IsDigit(u[i])

RECURSIVE DigitsValue(_, _)
DigitsValue(u, acc) ==
    IF u = <<>> THEN acc ELSE DigitsValue(Tail(u), 10 * acc + DigitVal(Head(u)))

IntVal(t) == DigitsValue(Strip(t), 0)

\* str(n) of a natural number
RECURSIVE StrInt(_)
StrInt(n) ==
    IF n < 10 THEN <<DigitSeq[n + 1]>> ELSE StrInt(n \div 10) \o <<DigitSeq[(n % 10) + 1]>>

\* list(range(a, b))
Range(a, b) == [i \in 1..(IF b > a THEN b - a ELSE 0) |-> a + i - 1]

\* the first occurrence of every element, in order
RECURSIVE DedupFrom(_, _)
DedupFrom(xs, seen) ==
    IF xs = <<>> THEN <<>>
    ELSE IF Head(xs) \in seen THEN DedupFrom(Tail(xs), seen)
    ELSE <<Head(xs)>> \o DedupFrom(Tail(xs), seen \cup {Head(xs)})

Dedup(xs) == DedupFrom(xs, {})

SeqSet(xs) == {xs[i] : i \in 1..Len(xs)}

-----------------------------------------------------------------------------
(* Weekday helpers.                                                        *)

\* the items of the dict DAYS_ES, in insertion order
DAYS_ES_ITEMS ==
    << <<"domingo", 0>>, <<"lunes", 1>>, <<"martes", 2>>, <<"miercoles", 3>>,
       <<"miércoles", 3>>, <<"jueves", 4>>, <<"viernes", 5>>, <<"sabado", 6>>,
       <<"sábado", 6>> >>

DAYS_ES_KEYS == {DAYS_ES_ITEMS[i][1] : i \in 1..Len(DAYS_ES_ITEMS)}

DAYS_ES(w) == DAYS_ES_ITEMS[CHOOSE i \in 1..Len(DAYS_ES_ITEMS) : DAYS_ES_ITEMS[i][1] = w][2]

\* a text is a key of DAYS_ES
InDaysEs(t) == Len(t) = 1 /\ t[1] \in DAYS_ES_KEYS

\* {v: k for k, v in DAYS_ES.items()}: the last key of a value wins
DAYS_NUM_TO_ES(n) ==
    LET last == CHOOSE i \in 1..Len(DAYS_ES_ITEMS) :
                    /\ DAYS_ES_ITEMS[i][2] = n
                    /\ \A j \in (i + 1)..Len(DAYS_ES_ITEMS) : DAYS_ES_ITEMS[j][2] # n
    IN  DAYS_ES_ITEMS[last][1]

\* a variant that expands a range without wrapping
RangeSeq_nowrap(a, b) == Range(a, b + 1)

\* the expansion of one range a-b, circular when b < a
RangeSeq(a, b) == IF a <= b THEN Range(a, b + 1) ELSE Range(a, 7) \o Range(0, b + 1)

\* re.fullmatch(r"\s*\d(?:\s*[-,]\s*\d)*\s*", raw); want is the token due next
RECURSIVE NumericMatch(_, _)
NumericMatch(s, want) ==
    IF s = <<>> THEN want = "sep"
    ELSE IF IsSpace(Head(s)) THEN NumericMatch(Tail(s), want)
    ELSE IF want = "digit" THEN IsDigit(Head(s)) /\ NumericMatch(Tail(s), "sep")
    ELSE Head(s) \in {"-", ","} /\ NumericMatch(Tail(s), "digit")

IsNumericSpec(raw) == NumericMatch(raw, "digit")

\* the loop over the parts of human_weekdays_to_kube
RECURSIVE HumanParts(_, _)
HumanParts(parts, nums) ==
    IF parts = <<>> THEN Ok(nums)
    ELSE LET p == Head(parts) IN
         IF Contains(p, "-")
         THEN LET ab == SplitFirst(p, "-") IN
              IF ~InDaysEs(ab[1]) \/ ~InDaysEs(ab[2]) THEN Err(p)
              ELSE HumanParts(Tail(parts),
                              nums \o RangeSeq(DAYS_ES(ab[1][1]), DAYS_ES(ab[2][1])))
         ELSE IF ~InDaysEs(p) THEN Err(p)
              ELSE HumanParts(Tail(parts), nums \o <<DAYS_ES(p[1])>>)

\* ",".join(str(n) for n in nums)
RECURSIVE StrEach(_)
StrEach(nums) == IF nums = <<>> THEN <<>> ELSE <<StrInt(Head(nums))>> \o StrEach(Tail(nums))

JoinNums(nums) == Join(StrEach(nums), ",")

NonEmptyParts(parts) == SelectSeq(parts, LAMBDA p : p # <<>>)

human_weekdays_to_kube(s) ==
    LET raw == Strip(s) IN
    IF raw = <<>> THEN Ok(<<"0", "-", "6">>)
    ELSE IF IsNumericSpec(raw) THEN Ok(RemoveSpaces(raw))
    ELSE LET txt   == _strip_accents(RemoveSpaces(Lower(raw)))
             parts == NonEmptyParts(Split(txt, ","))
             r     == HumanParts(parts, <<>>)
         IN  IF r.ok THEN Ok(JoinNums(Dedup(r.val))) ELSE r

\* the loop over the chunks shared by kube_weekdays_to_human and
\* _expand_weekdays_str; skipEmpty is the latter's "if not chunk: continue"
RECURSIVE ExpandChunks(_, _, _)
ExpandChunks(chunks, tokens, skipEmpty) ==
    IF chunks = <<>> THEN Ok(tokens)
    ELSE LET chunk == Strip(Head(chunks)) IN
         IF skipEmpty /\ chunk = <<>> THEN ExpandChunks(Tail(chunks), tokens, skipEmpty)
         ELSE IF Contains(chunk, "-")
         THEN LET ab == SplitFirst(chunk, "-") IN
              IF ~IntOk(ab[1]) THEN Err(ab[1])
              ELSE IF ~IntOk(ab[2]) THEN Err(ab[2])
              ELSE ExpandChunks(Tail(chunks),
                                tokens \o RangeSeq(IntVal(ab[1]), IntVal(ab[2])), skipEmpty)
         ELSE IF ~IntOk(chunk) THEN Err(chunk)
              ELSE ExpandChunks(Tail(chunks), tokens \o <<IntVal(chunk)>>, skipEmpty)

\* a variant that counts the days from Monday
DayName_monday(n) == IF n \in 0..6 THEN <<DAYS_NUM_TO_ES((n + 1) % 7)>> ELSE StrInt(n)

\* DAYS_NUM_TO_ES.get(n, str(n))
DayName(n) == IF n \in 0..6 THEN <<DAYS_NUM_TO_ES(n)>> ELSE StrInt(n)

RECURSIVE DayNames(_)
DayNames(nums) == IF nums = <<>> THEN <<>> ELSE <<DayName(Head(nums))>> \o DayNames(Tail(nums))

kube_weekdays_to_human(s) ==
    LET raw == Strip(s) IN
    IF raw = <<>> THEN Ok(<<"todos">>)
    ELSE LET r == ExpandChunks(Split(raw, ","), <<>>, FALSE)
         IN  IF r.ok THEN Ok(Join(DayNames(Dedup(r.val)), ",")) ELSE r

HasLetter(s) == \E i \in 1..Len(s) : IsWord(s[i])

_expand_weekdays_str(raw) ==
    IF raw = <<>> THEN Ok(Range(0, 7))
    ELSE LET s0 == Strip(raw)
             k  == IF HasLetter(s0) THEN human_weekdays_to_kube(s0) ELSE Ok(s0)
         IN  IF ~k.ok THEN k
             ELSE LET r == ExpandChunks(Split(k.val, ","), <<>>, TRUE)
                  IN  IF r.ok THEN Ok(Dedup(r.val)) ELSE r

\* a variant that adds the shift without wrapping at the end of the week
RECURSIVE ShiftEach_nomod(_, _)
ShiftEach_nomod(lst, shift) ==
    IF lst = <<>> THEN <<>> ELSE <<Head(lst) + shift>> \o ShiftEach_nomod(Tail(lst), shift)

RECURSIVE ShiftEach(_, _)
ShiftEach(lst, shift) ==
    IF lst = <<>> THEN <<>> ELSE <<(Head(lst) + shift) % 7>> \o ShiftEach(Tail(lst), shift)

\* a variant that passes the spec through as written when the shift is zero
_shift_weekdays_str_asis(raw, shift) ==
    LET sh  == shift % 7
        lst == _expand_weekdays_str(raw)
    IN  IF ~lst.ok THEN lst
        ELSE IF sh = 0 /\ raw # <<>> THEN Ok(raw)
        ELSE Ok(JoinNums(Dedup(ShiftEach(lst.val, sh))))

\* a variant that leaves the days of the local zone as they are
_shift_weekdays_str_noshift(raw, shift) ==
    LET lst == _expand_weekdays_str(raw)
    IN  IF ~lst.ok THEN lst ELSE Ok(JoinNums(Dedup(lst.val)))

_shift_weekdays_str(raw, shift) ==
    LET sh  == shift % 7
        lst == _expand_weekdays_str(raw)
    IN  IF ~lst.ok THEN lst ELSE Ok(JoinNums(Dedup(ShiftEach(lst.val, sh))))

-----------------------------------------------------------------------------
(* Time helpers.  An instant is a number of minutes since midnight of day  *)
(* 0; date.today() is the day of the run.                                  *)

\* TZ_LOCAL = "America/Bogota": five hours behind UTC on every date
TZ_LOCAL_UTCOFFSET_MIN == -300

MINUTES_PER_DAY == 1440

\* hh, mm = map(int, text.split(":")) and time(hh, mm)
ParseHHMM(text) ==
    LET parts == Split(text, ":") IN
    IF Len(parts) # 2 \/ ~IntOk(parts[1]) \/ ~IntOk(parts[2]) THEN Err(text)
    ELSE LET hh == IntVal(parts[1])
             mm == IntVal(parts[2])
         IN  IF hh \in 0..23 /\ mm \in 0..59 THEN Ok(<<hh, mm>>) ELSE Err(text)

\* datetime.combine(day, time(hh, mm), tzinfo=zone) as a UTC instant
Combine(day, hm, utcoffset) == day * MINUTES_PER_DAY + hm[1] * 60 + hm[2] - utcoffset

\* the calendar day of an instant in a zone
DateOf(instant, utcoffset) == (instant + utcoffset) \div MINUTES_PER_DAY

Pad2(n) == <<DigitSeq[(n \div 10) + 1], DigitSeq[(n % 10) + 1]>>

\* dt.strftime("%H:%M") of an instant in a zone
StrfHM(instant, utcoffset) ==
    LET m == (instant + utcoffset) % MINUTES_PER_DAY
    IN  Pad2(m \div 60) \o <<":">> \o Pad2(m % 60)

\* a variant that adds to the minute field alone, without carrying into the hour
add_minutes_hhmm_nocarry(hhmm_utc, minutes, today) ==
    LET hm == ParseHHMM(hhmm_utc) IN
    IF ~hm.ok THEN hm
    ELSE Ok(Pad2(hm.val[1]) \o <<":">> \o Pad2((hm.val[2] + minutes) % 60))

add_minutes_hhmm(hhmm_utc, minutes, today) ==
    LET hm == ParseHHMM(hhmm_utc) IN
    IF ~hm.ok THEN hm
    ELSE LET dt  == Combine(today, hm.val, 0)
             dt2 == dt + minutes
         IN  Ok(StrfHM(dt2, 0))

\* a variant whose day shift is the local date minus the UTC date
to_utc_hhmm_and_dayshift_flipped(local_hhmm, today) ==
    LET hm == ParseHHMM(local_hhmm) IN
    IF ~hm.ok THEN hm
    ELSE LET dt_local  == Combine(today, hm.val, TZ_LOCAL_UTCOFFSET_MIN)
             day_shift == DateOf(dt_local, TZ_LOCAL_UTCOFFSET_MIN) - DateOf(dt_local, 0)
         IN  Ok([hhmm |-> StrfHM(dt_local, 0), day_shift |-> day_shift])

to_utc_hhmm_and_dayshift(local_hhmm, today) ==
    LET hm == ParseHHMM(local_hhmm) IN
    IF ~hm.ok THEN hm
    ELSE LET dt_local  == Combine(today, hm.val, TZ_LOCAL_UTCOFFSET_MIN)
             day_shift == DateOf(dt_local, 0) - DateOf(dt_local, TZ_LOCAL_UTCOFFSET_MIN)
         IN  Ok([hhmm |-> StrfHM(dt_local, 0), day_shift |-> day_shift])

-----------------------------------------------------------------------------
(* Templates.  An optional argument is <<>> (None) or <<value>>.           *)

None == <<>>

Some(v) == <<v>>

VALID_SUFFIXES == <<"datastores", "apps", "rocket", "intelligence", "airflowsso">>

EXCLUDE_PG_HDFS_LABELS ==
    << [matchLabels |-> ("app.kubernetes.io/managed-by" :> "postgres-operator")],
       [matchLabels |-> ("postgres.stratio.com/cluster" :> "true")],
       [matchLabels |-> ("app.kubernetes.io/part-of" :> "postgres")],
       [matchLabels |-> ("app.kubernetes.io/managed-by" :> "hdfs-operator")],
       [matchLabels |-> ("hdfs.stratio.com/cluster" :> "true")],
       [matchLabels |-> ("app.kubernetes.io/part-of" :> "hdfs")] >>

\* a variant that leaves the HDFS matchers out
get_exclude_pg_hdfs_refs_postgres == SubSeq(EXCLUDE_PG_HDFS_LABELS, 1, 3)

get_exclude_pg_hdfs_refs == EXCLUDE_PG_HDFS_LABELS

PAIR_ID == "kube-green.stratio.com/pair-id"

PAIR_ROLE == "kube-green.stratio.com/pair-role"

PairAnnotations(id, role) == (PAIR_ID :> id) @@ (PAIR_ROLE :> role)

\* a dict entry that is set only under a condition
FieldIf(cond, rec) == IF cond THEN rec ELSE <<>>

\* a variant that drops the annotations
meta_plain(name, namespace, annotations) == [name |-> name, namespace |-> namespace]

\* a variant that names every object after its namespace
meta_nsname(name, namespace, annotations) ==
    [name |-> namespace, namespace |-> namespace]
        @@ FieldIf(annotations # None, [annotations |-> annotations[1]])

meta(name, namespace, annotations) ==
    [name |-> name, namespace |-> namespace]
        @@ FieldIf(annotations # None, [annotations |-> annotations[1]])

\* a variant that never sets the PgBouncer field
sleepinfo_base_nopgbouncer(weekdays, sleepAtUTC, wakeUpAtUTC, suspendDeployments, suspendStatefulSets, suspendCronJobs, suspendDeploymentsPgbouncer, suspendStatefulSetsPostgres, suspendStatefulSetsHdfs) ==
    [weekdays            |-> weekdays,
     timeZone            |-> "UTC",
     sleepAt             |-> sleepAtUTC,
     suspendDeployments  |-> suspendDeployments,
     suspendStatefulSets |-> suspendStatefulSets,
     suspendCronJobs     |-> suspendCronJobs]
        @@ FieldIf(wakeUpAtUTC # None, [wakeUpAt |-> wakeUpAtUTC[1]])
        @@ FieldIf(suspendStatefulSetsPostgres, [suspendStatefulSetsPostgres |-> TRUE])
        @@ FieldIf(suspendStatefulSetsHdfs, [suspendStatefulSetsHdfs |-> TRUE])

sleepinfo_base(weekdays, sleepAtUTC, wakeUpAtUTC, suspendDeployments, suspendStatefulSets, suspendCronJobs, suspendDeploymentsPgbouncer, suspendStatefulSetsPostgres, suspendStatefulSetsHdfs) ==
    [weekdays            |-> weekdays,
     timeZone            |-> "UTC",
     sleepAt             |-> sleepAtUTC,
     suspendDeployments  |-> suspendDeployments,
     suspendStatefulSets |-> suspendStatefulSets,
     suspendCronJobs     |-> suspendCronJobs]
        @@ FieldIf(wakeUpAtUTC # None, [wakeUpAt |-> wakeUpAtUTC[1]])
        @@ FieldIf(suspendDeploymentsPgbouncer, [suspendDeploymentsPgbouncer |-> TRUE])
        @@ FieldIf(suspendStatefulSetsPostgres, [suspendStatefulSetsPostgres |-> TRUE])
        @@ FieldIf(suspendStatefulSetsHdfs, [suspendStatefulSetsHdfs |-> TRUE])

cr_yaml(kind, metadata, spec) ==
    [apiVersion |-> "kube-green.com/v1alpha1", kind |-> "SleepInfo",
     metadata |-> metadata, spec |-> spec]

\* a variant that compares the expanded lists, in their order
ExpandSet_list(wd) == _expand_weekdays_str(wd).val

\* set(_expand_weekdays_str(wd)); the weekdays compared are lists of digits
ExpandSet(wd) == SeqSet(_expand_weekdays_str(wd).val)

-----------------------------------------------------------------------------
(* Generators per kind of namespace.                                       *)

\* Both branches of the source (weekday sets equal, or not) build the same
\* four objects.
make_datastores_native_deploys_split_days(tenant, off_utc, on_deployments_utc, on_pg_hdfs, on_pgbouncer, wd_sleep, wd_wake) ==
    LET ns           == tenant \o "-datastores"
        base_name    == "ds-deploys-" \o tenant
        exclude_refs == get_exclude_pg_hdfs_refs
        shared_id    == tenant \o "-datastores"
        spec_sleep ==
            sleepinfo_base(wd_sleep, off_utc, None, TRUE, TRUE, TRUE, TRUE, TRUE, TRUE)
                @@ [excludeRef |-> exclude_refs]
        spec_wake_pg_hdfs ==
            sleepinfo_base(wd_wake, on_pg_hdfs, None, FALSE, FALSE, FALSE, FALSE, TRUE, TRUE)
                @@ [excludeRef |-> exclude_refs]
        spec_wake_pgbouncer ==
            sleepinfo_base(wd_wake, on_pgbouncer, None, FALSE, FALSE, FALSE, TRUE, FALSE, FALSE)
                @@ [excludeRef |-> exclude_refs]
        spec_wake_native ==
            sleepinfo_base(wd_wake, on_deployments_utc, None, TRUE, TRUE, TRUE, TRUE, FALSE, FALSE)
                @@ [excludeRef |-> exclude_refs]
        four ==
            << cr_yaml("SleepInfo",
                       meta("sleep-" \o base_name, ns, Some(PairAnnotations(shared_id, "sleep"))),
                       spec_sleep),
               cr_yaml("SleepInfo",
                       meta("wake-" \o base_name \o "-pg-hdfs", ns,
                            Some(PairAnnotations(shared_id, "wake"))),
                       spec_wake_pg_hdfs),
               cr_yaml("SleepInfo",
                       meta("wake-" \o base_name \o "-pgbouncer", ns,
                            Some(PairAnnotations(shared_id, "wake"))),
                       spec_wake_pgbouncer),
               cr_yaml("SleepInfo",
                       meta("wake-" \o base_name, ns, Some(PairAnnotations(shared_id, "wake"))),
                       spec_wake_native) >>
    IN  IF ExpandSet(wd_sleep) = ExpandSet(wd_wake) THEN four ELSE four

make_ns_split_days(tenant, ns_suffix, off_utc, on_deployments_utc, wd_sleep, wd_wake, suspend_statefulsets, suspend_statefulsets_postgres, extra_sleep_patches, extra_wake_patches, extra_exclude_labels) ==
    LET ns          == tenant \o "-" \o ns_suffix
        exclude_ref ==
            extra_exclude_labels \o
            (IF ns_suffix = "apps"
             THEN <<[matchLabels |->
                        ("cct.stratio.com/application_id" :> ("virtualizer." \o ns))]>>
             ELSE <<>>)
        all_patches == extra_sleep_patches \o extra_wake_patches
        shared_id   == tenant \o "-" \o ns_suffix
        one ==
            sleepinfo_base(wd_sleep, off_utc, Some(on_deployments_utc), TRUE,
                           suspend_statefulsets, TRUE, FALSE, suspend_statefulsets_postgres,
                           FALSE)
                @@ FieldIf(exclude_ref # <<>>, [excludeRef |-> exclude_ref])
                @@ FieldIf(all_patches # <<>>, [patches |-> all_patches])
        sleep ==
            sleepinfo_base(wd_sleep, off_utc, None, TRUE, suspend_statefulsets, TRUE, FALSE,
                           suspend_statefulsets_postgres, FALSE)
                @@ FieldIf(exclude_ref # <<>>, [excludeRef |-> exclude_ref])
                @@ FieldIf(extra_sleep_patches # <<>>, [patches |-> extra_sleep_patches])
        wake ==
            sleepinfo_base(wd_wake, on_deployments_utc, None, TRUE, suspend_statefulsets, TRUE,
                           FALSE, suspend_statefulsets_postgres, FALSE)
                @@ FieldIf(exclude_ref # <<>>, [excludeRef |-> exclude_ref])
                @@ FieldIf(extra_wake_patches # <<>>, [patches |-> extra_wake_patches])
    IN  IF ExpandSet(wd_sleep) = ExpandSet(wd_wake)
        THEN << cr_yaml("SleepInfo", meta(tenant \o "-" \o ns_suffix, ns, None), one) >>
        ELSE << cr_yaml("SleepInfo",
                        meta("sleep-" \o tenant \o "-" \o ns_suffix, ns,
                             Some(PairAnnotations(shared_id, "sleep"))),
                        sleep),
                cr_yaml("SleepInfo",
                        meta("wake-" \o tenant \o "-" \o ns_suffix, ns,
                             Some(PairAnnotations(shared_id, "wake"))),
                        wake) >>

-----------------------------------------------------------------------------
(* Namespace helpers.                                                      *)

IsSep(c) == c \in {",", " "}

RECURSIVE SkipSeps(_)
SkipSeps(s) == IF s # <<>> /\ IsSep(Head(s)) THEN SkipSeps(Tail(s)) ELSE s

RECURSIVE UntilSep(_)
UntilSep(s) == IF s = <<>> \/ IsSep(Head(s)) THEN <<>> ELSE <<Head(s)>> \o UntilSep(Tail(s))

\* re.split(r"[,\s]+", text)
RECURSIVE ReSplitSeps(_)
ReSplitSeps(s) ==
    LET first == UntilSep(s)
        rest  == SubSeq(s, Len(first) + 1, Len(s))
    IN  IF rest = <<>> THEN <<first>> ELSE <<first>> \o ReSplitSeps(SkipSeps(rest))

ValidSuffixSet == SeqSet(VALID_SUFFIXES)

\* the loop of normalize_namespaces over the parts
RECURSIVE NormalizeParts(_, _)
NormalizeParts(parts, out) ==
    IF parts = <<>> THEN out
    ELSE LET p == Lower(Head(parts)) IN
         IF p = <<>> THEN NormalizeParts(Tail(parts), out)
         ELSE IF ~(Len(p) = 1 /\ p[1] \in ValidSuffixSet) THEN NormalizeParts(Tail(parts), out)
         ELSE NormalizeParts(Tail(parts), out \cup {p[1]})

\* a variant that returns the valid tokens even when there is none
normalize_namespaces_nofallback(ns_arg) ==
    IF ns_arg = None \/ ns_arg[1] = <<>> THEN ValidSuffixSet
    ELSE NormalizeParts(ReSplitSeps(Strip(ns_arg[1])), {})

normalize_namespaces(ns_arg) ==
    IF ns_arg = None \/ ns_arg[1] = <<>> THEN ValidSuffixSet
    ELSE LET out == NormalizeParts(ReSplitSeps(Strip(ns_arg[1])), {})
         IN  IF out # {} THEN out ELSE ValidSuffixSet

\* the tokens of the "[WARN] Namespace desconocido" lines, in order
RECURSIVE NormalizeWarnings(_)
NormalizeWarnings(parts) ==
    IF parts = <<>> THEN <<>>
    ELSE LET p == Lower(Head(parts)) IN
         IF p = <<>> \/ (Len(p) = 1 /\ p[1] \in ValidSuffixSet)
         THEN NormalizeWarnings(Tail(parts))
         ELSE <<p>> \o NormalizeWarnings(Tail(parts))

normalize_namespaces_warnings(ns_arg) ==
    IF ns_arg = None \/ ns_arg[1] = <<>> THEN <<>>
    ELSE NormalizeWarnings(ReSplitSeps(Strip(ns_arg[1])))

\* a variant that lets every group through
allow_ns_any(selected_set, suffix) == suffix \in ValidSuffixSet

allow_ns(selected_set, suffix) ==
    suffix \in (IF selected_set # {} THEN selected_set ELSE ValidSuffixSet)

\* [f"{tenant}-{s}" for s in VALID_SUFFIXES if s in sel]
namespaces_for_tenant(tenant, selected_suffixes) ==
    LET sel  == normalize_namespaces(selected_suffixes)
        kept == SelectSeq(VALID_SUFFIXES, LAMBDA s : s \in sel)
    IN  [i \in 1..Len(kept) |-> tenant \o "-" \o kept[i]]

-----------------------------------------------------------------------------
(* The assembler.                                                          *)

Truthy(opt) == opt # None /\ opt[1] # <<>>

\* step 1: the weekday specs in local time, the first ValueError caught
NormalizeDays(weekdays, sleepdays, wakedays) ==
    LET wd_default     == human_weekdays_to_kube(weekdays)
        wd_sleep_local == IF Truthy(sleepdays) THEN human_weekdays_to_kube(sleepdays[1])
                          ELSE wd_default
        wd_wake_local  == IF Truthy(wakedays) THEN human_weekdays_to_kube(wakedays[1])
                          ELSE wd_default
    IN  IF ~wd_default.ok THEN wd_default
        ELSE IF ~wd_sleep_local.ok THEN wd_sleep_local
        ELSE IF ~wd_wake_local.ok THEN wd_wake_local
        ELSE Ok([sleep |-> wd_sleep_local.val, wake |-> wd_wake_local.val])

\* a variant that starts the native workloads before pgbouncer
StaggerTimes_swapped(on_utc, today) ==
    [on_pg_hdfs     |-> on_utc,
     on_pgbouncer   |-> add_minutes_hhmm(on_utc, 7, today).val,
     on_deployments |-> add_minutes_hhmm(on_utc, 5, today).val]

\* step 4: the staggered wake times in UTC
StaggerTimes(on_utc, today) ==
    [on_pg_hdfs     |-> on_utc,
     on_pgbouncer   |-> add_minutes_hhmm(on_utc, 5, today).val,
     on_deployments |-> add_minutes_hhmm(on_utc, 7, today).val]

\* a variant that wakes apps at the first instant of the chain
GroupObjects_t0(tenant, selected, off_utc, on, wd_sleep_utc, wd_wake_utc) ==
    (IF allow_ns(selected, "datastores")
     THEN make_datastores_native_deploys_split_days(tenant, off_utc, on.on_deployments,
              on.on_pg_hdfs, on.on_pgbouncer, wd_sleep_utc, wd_wake_utc)
     ELSE <<>>)
    \o (IF allow_ns(selected, "apps")
        THEN make_ns_split_days(tenant, "apps", off_utc, on.on_pg_hdfs, wd_sleep_utc,
                 wd_wake_utc, FALSE, FALSE, <<>>, <<>>, <<>>)
        ELSE <<>>)
    \o (IF allow_ns(selected, "rocket")
        THEN make_ns_split_days(tenant, "rocket", off_utc, on.on_deployments, wd_sleep_utc,
                 wd_wake_utc, FALSE, FALSE, <<>>, <<>>, <<>>)
        ELSE <<>>)
    \o (IF allow_ns(selected, "intelligence")
        THEN make_ns_split_days(tenant, "intelligence", off_utc, on.on_deployments,
                 wd_sleep_utc, wd_wake_utc, FALSE, FALSE, <<>>, <<>>, <<>>)
        ELSE <<>>)
    \o (IF allow_ns(selected, "airflowsso")
        THEN make_ns_split_days(tenant, "airflowsso", off_utc, on.on_deployments,
                 wd_sleep_utc, wd_wake_utc, TRUE, TRUE, <<>>, <<>>, get_exclude_pg_hdfs_refs)
        ELSE <<>>)

\* the objects of the selected groups, in the order of the source
GroupObjects(tenant, selected, off_utc, on, wd_sleep_utc, wd_wake_utc) ==
    (IF allow_ns(selected, "datastores")
     THEN make_datastores_native_deploys_split_days(tenant, off_utc, on.on_deployments,
              on.on_pg_hdfs, on.on_pgbouncer, wd_sleep_utc, wd_wake_utc)
     ELSE <<>>)
    \o (IF allow_ns(selected, "apps")
        THEN make_ns_split_days(tenant, "apps", off_utc, on.on_deployments, wd_sleep_utc,
                 wd_wake_utc, FALSE, FALSE, <<>>, <<>>, <<>>)
        ELSE <<>>)
    \o (IF allow_ns(selected, "rocket")
        THEN make_ns_split_days(tenant, "rocket", off_utc, on.on_deployments, wd_sleep_utc,
                 wd_wake_utc, FALSE, FALSE, <<>>, <<>>, <<>>)
        ELSE <<>>)
    \o (IF allow_ns(selected, "intelligence")
        THEN make_ns_split_days(tenant, "intelligence", off_utc, on.on_deployments,
                 wd_sleep_utc, wd_wake_utc, FALSE, FALSE, <<>>, <<>>, <<>>)
        ELSE <<>>)
    \o (IF allow_ns(selected, "airflowsso")
        THEN make_ns_split_days(tenant, "airflowsso", off_utc, on.on_deployments,
                 wd_sleep_utc, wd_wake_utc, TRUE, TRUE, <<>>, <<>>, get_exclude_pg_hdfs_refs)
        ELSE <<>>)

\* a variant that shifts the wake weekdays by the day shift of the off time
make_all_objects_for_tenant_oneshift(a, today) ==
    LET days == NormalizeDays(a.weekdays, a.sleepdays, a.wakedays) IN
    IF ~days.ok THEN [status |-> "exit", err |-> days.val, objs |-> <<>>]
    ELSE
    LET off == to_utc_hhmm_and_dayshift(a.off, today)
        on  == to_utc_hhmm_and_dayshift(a.on, today)
    IN
    IF ~off.ok THEN [status |-> "crash", err |-> off.val, objs |-> <<>>]
    ELSE IF ~on.ok THEN [status |-> "crash", err |-> on.val, objs |-> <<>>]
    ELSE
    LET wd_sleep_utc == _shift_weekdays_str(days.val.sleep, off.val.day_shift)
        wd_wake_utc  == _shift_weekdays_str(days.val.wake, off.val.day_shift)
    IN
    IF ~wd_sleep_utc.ok THEN [status |-> "crash", err |-> wd_sleep_utc.val, objs |-> <<>>]
    ELSE IF ~wd_wake_utc.ok THEN [status |-> "crash", err |-> wd_wake_utc.val, objs |-> <<>>]
    ELSE
    LET stagger  == StaggerTimes(on.val.hhmm, today)
        selected == normalize_namespaces(a.namespaces)
    IN  [status |-> "ok", err |-> <<>>,
         objs |-> GroupObjects(a.tenant, selected, off.val.hhmm, stagger,
                               wd_sleep_utc.val, wd_wake_utc.val)]

\* status "ok" with the objects; "exit" for sys.exit(1) after the error was
\* printed; "crash" for a ValueError nobody catches (traceback, status 1)
make_all_objects_for_tenant(a, today) ==
    LET days == NormalizeDays(a.weekdays, a.sleepdays, a.wakedays) IN
    IF ~days.ok THEN [status |-> "exit", err |-> days.val, objs |-> <<>>]
    ELSE
    LET off == to_utc_hhmm_and_dayshift(a.off, today)
        on  == to_utc_hhmm_and_dayshift(a.on, today)
    IN
    IF ~off.ok THEN [status |-> "crash", err |-> off.val, objs |-> <<>>]
    ELSE IF ~on.ok THEN [status |-> "crash", err |-> on.val, objs |-> <<>>]
    ELSE
    LET wd_sleep_utc == _shift_weekdays_str(days.val.sleep, off.val.day_shift)
        wd_wake_utc  == _shift_weekdays_str(days.val.wake, on.val.day_shift)
    IN
    IF ~wd_sleep_utc.ok THEN [status |-> "crash", err |-> wd_sleep_utc.val, objs |-> <<>>]
    ELSE IF ~wd_wake_utc.ok THEN [status |-> "crash", err |-> wd_wake_utc.val, objs |-> <<>>]
    ELSE
    LET stagger  == StaggerTimes(on.val.hhmm, today)
        selected == normalize_namespaces(a.namespaces)
    IN  [status |-> "ok", err |-> <<>>,
         objs |-> GroupObjects(a.tenant, selected, off.val.hhmm, stagger,
                               wd_sleep_utc.val, wd_wake_utc.val)]

\* to_yaml_docs: weekdays that hold letters are normalized again, the
\* documents are then dumped one by one
ToYamlDoc(o) ==
    IF HasLetter(o.spec.weekdays)
    THEN [o EXCEPT !.spec.weekdays = human_weekdays_to_kube(@).val]
    ELSE o

to_yaml_docs(os) == [i \in 1..Len(os) |-> ToYamlDoc(os[i])]

-----------------------------------------------------------------------------
(* The weekday normalizer applied to a weekday spec.                       *)

MaxLen == 3

\* the largest day shift applied; the smallest is the -1 of a zone ahead of UTC
MaxShift == 7

Shifts == -1..MaxShift

\* no shift was applied yet
ShIdle ==
    /\ wdA = 0
    /\ wdB = 0
    /\ wdShift1 = Unset
    /\ wdShift2 = Unset
    /\ wdShiftSum = Unset

NumTokens == Digits \cup {"-", ",", " "}

Words == {"lunes", "LUNES", "Viernes", "sábado", "SÁBADO", "Miércoles", "domingo", "lunez"}

NameTokens == Words \cup {"-", ",", " "}

TextsUpTo(tokens, n) == UNION {[1..k -> tokens] : k \in 0..n}

\* longer specs in the forms the help text shows
LongSpecs ==
    { <<"lunes", "-", "Viernes", ",", "sábado">>,
      <<"Viernes", ",", "sábado", ",", "domingo">>,
      <<"Viernes", "-", "lunes", ",", "Miércoles">>,
      <<"1", ",", "3", ",", "5">>,
      <<"5", "-", "0", ",", "3">>,
      <<"1", "-", "3", "-", "5">>,
      <<"lunes", ",", "3">>,
      <<"lunes", "-", "5">> }

WeekdaySpecs == TextsUpTo(NumTokens, MaxLen) \cup TextsUpTo(NameTokens, MaxLen) \cup LongSpecs

WdInit ==
    /\ wdPc = "input"
    /\ wdRaw \in WeekdaySpecs
    /\ wdKube = Unset
    /\ wdKube2 = Unset
    /\ wdHuman = Unset
    /\ wdExpand = Unset
    /\ wdExpandK = Unset
    /\ ShIdle

WdParse ==
    /\ wdPc = "input"
    /\ wdKube' = human_weekdays_to_kube(wdRaw)
    /\ wdPc' = "parsed"
    /\ UNCHANGED <<wdRaw, wdKube2, wdHuman, wdExpand, wdExpandK>>
    /\ UNCHANGED shVars
    /\ UNCHANGED <<tmVars, nsVars, mainVars>>

WdReparse ==
    /\ wdPc = "parsed"
    /\ wdKube.ok
    /\ wdKube2' = human_weekdays_to_kube(wdKube.val)
    /\ wdPc' = "reparsed"
    /\ UNCHANGED <<wdRaw, wdKube, wdHuman, wdExpand, wdExpandK>>
    /\ UNCHANGED shVars
    /\ UNCHANGED <<tmVars, nsVars, mainVars>>

WdFormat ==
    /\ wdPc = "reparsed"
    /\ wdHuman' = kube_weekdays_to_human(wdKube.val)
    /\ wdPc' = "formatted"
    /\ UNCHANGED <<wdRaw, wdKube, wdKube2, wdExpand, wdExpandK>>
    /\ UNCHANGED shVars
    /\ UNCHANGED <<tmVars, nsVars, mainVars>>

WdExpand ==
    /\ \/ wdPc = "formatted"
       \/ wdPc = "parsed" /\ ~wdKube.ok
    /\ wdExpand' = _expand_weekdays_str(wdRaw)
    /\ wdExpandK' = IF wdKube.ok THEN _expand_weekdays_str(wdKube.val) ELSE Unset
    /\ wdPc' = "expanded"
    /\ UNCHANGED <<wdRaw, wdKube, wdKube2, wdHuman>>
    /\ UNCHANGED shVars
    /\ UNCHANGED <<tmVars, nsVars, mainVars>>

\* wd_utc = _shift_weekdays_str(wd_local, shift), on a normalized spec
WdShift ==
    /\ wdPc = "expanded"
    /\ wdKube.ok
    /\ \E a \in Shifts :
          /\ wdA' = a
          /\ wdShift1' = _shift_weekdays_str(wdKube.val, a)
    /\ wdPc' = "shifted"
    /\ UNCHANGED <<wdRaw, wdKube, wdKube2, wdHuman, wdExpand, wdExpandK>>
    /\ UNCHANGED <<wdB, wdShift2, wdShiftSum>>
    /\ UNCHANGED <<tmVars, nsVars, mainVars>>

\* the shifted spec shifted again, and the spec shifted once by the sum
WdShiftAgain ==
    /\ wdPc = "shifted"
    /\ wdShift1.ok
    /\ \E b \in Shifts :
          /\ wdB' = b
          /\ wdShift2' = _shift_weekdays_str(wdShift1.val, b)
          /\ wdShiftSum' = _shift_weekdays_str(wdKube.val, (wdA + b) % 7)
    /\ wdPc' = "shifted twice"
    /\ UNCHANGED <<wdRaw, wdKube, wdKube2, wdHuman, wdExpand, wdExpandK>>
    /\ UNCHANGED <<wdA, wdShift1>>
    /\ UNCHANGED <<tmVars, nsVars, mainVars>>

-----------------------------------------------------------------------------
(* The namespace filter applied to a --namespaces value.                   *)

MaxNsLen == 3

NsTokens ==
    {",", " ", "apps", "APPS", "Rocket", "datastores", "intelligence", "airflowsso", "lunez"}

NamespaceTexts == {None} \cup {Some(s) : s \in TextsUpTo(NsTokens, MaxNsLen)}

NsInit ==
    /\ nsPc = "input"
    /\ nsArg \in NamespaceTexts
    /\ nsSel = {}
    /\ nsWarn = <<>>
    /\ nsList = <<>>

NsNormalize ==
    /\ nsPc = "input"
    /\ nsSel' = normalize_namespaces(nsArg)
    /\ nsWarn' = normalize_namespaces_warnings(nsArg)
    /\ nsPc' = "normalized"
    /\ UNCHANGED <<nsArg, nsList>>
    /\ UNCHANGED <<wdVars, tmVars, mainVars>>

NsForTenant ==
    /\ nsPc = "normalized"
    /\ \E tenant \in {"acme", "bdadevprd"} : nsList' = namespaces_for_tenant(tenant, nsArg)
    /\ nsPc' = "listed"
    /\ UNCHANGED <<nsArg, nsSel, nsWarn>>
    /\ UNCHANGED <<wdVars, tmVars, mainVars>>

-----------------------------------------------------------------------------
(* The time converter applied to a local time of day.                      *)

\* the days date.today() is drawn from
MaxDay == 1

Days == 0..MaxDay

\* the largest number of minutes added
MaxAdd == 8

HHMM(h, m) == Pad2(h) \o <<":">> \o Pad2(m)

AllTimes == {HHMM(h, m) : h \in 0..23, m \in 0..59}

TmInit ==
    /\ tmPc = "input"
    /\ tmLocal \in AllTimes
    /\ tmUtc = Unset
    /\ tmN = 0
    /\ tmPlus = Unset
    /\ tmChain = Unset

TmToUtc ==
    /\ tmPc = "input"
    /\ \E today \in Days : tmUtc' = to_utc_hhmm_and_dayshift(tmLocal, today)
    /\ tmPc' = "converted"
    /\ UNCHANGED <<tmLocal, tmN, tmPlus, tmChain>>
    /\ UNCHANGED <<wdVars, nsVars, mainVars>>

TmAddMinutes ==
    /\ tmPc = "converted"
    /\ tmUtc.ok
    /\ \E n \in 0..MaxAdd, today \in Days :
          /\ tmN' = n
          /\ tmPlus' = add_minutes_hhmm(tmUtc.val.hhmm, n, today)
    /\ tmPc' = "added"
    /\ UNCHANGED <<tmLocal, tmUtc, tmChain>>
    /\ UNCHANGED <<wdVars, nsVars, mainVars>>

\* the wake times of the datastores chain, as make_all_objects_for_tenant derives them
TmStagger ==
    /\ tmPc = "converted"
    /\ tmUtc.ok
    /\ \E today \in Days : tmChain' = Ok(StaggerTimes(tmUtc.val.hhmm, today))
    /\ tmPc' = "staggered"
    /\ UNCHANGED <<tmLocal, tmUtc, tmN, tmPlus>>
    /\ UNCHANGED <<wdVars, nsVars, mainVars>>

-----------------------------------------------------------------------------
(* The cluster as kubectl shows it, and the functions that call kubectl.   *)

NsName(tenant, suffix) == tenant \o "-" \o suffix

\* one kubectl invocation and whether it exited with status 0
Call(verb, ns, kind, name, ok) ==
    [verb |-> verb, ns |-> ns, kind |-> kind, name |-> name, ok |-> ok]

\* what an invocation asks for
Request(verb, ns, kind, name) == [verb |-> verb, ns |-> ns, kind |-> kind, name |-> name]

\* the SleepInfo names of the model, in the order kubectl lists them (by name)
ItemOrder(tenant) ==
    << tenant \o "-airflowsso", tenant \o "-apps", tenant \o "-intelligence",
       tenant \o "-rocket", "legacy",
       "sleep-" \o tenant \o "-airflowsso", "sleep-" \o tenant \o "-apps",
       "sleep-" \o tenant \o "-intelligence", "sleep-" \o tenant \o "-rocket",
       "sleep-ds-deploys-" \o tenant,
       "wake-" \o tenant \o "-airflowsso", "wake-" \o tenant \o "-apps",
       "wake-" \o tenant \o "-intelligence", "wake-" \o tenant \o "-rocket",
       "wake-ds-deploys-" \o tenant, "wake-ds-deploys-" \o tenant \o "-pg-hdfs",
       "wake-ds-deploys-" \o tenant \o "-pgbouncer" >>

\* the Secret names of the model, in the order kubectl lists them: a Secret
\* name is a text of one token, or the prefix "sleepinfo-" and a name
SecretOrder(tenant) ==
    << <<"db-credentials">> >> \o
    [i \in 1..Len(ItemOrder(tenant)) |-> <<"sleepinfo-", ItemOrder(tenant)[i]>>]

NsExists(cl, ns) == ns \in DOMAIN cl /\ cl[ns].exists

\* a request ends with status 0 unless it is one of the failing ones or its
\* namespace does not exist
Succeeds(cl, req, failing) == NsExists(cl, req.ns) /\ req \notin failing

\* the names of the "items" of `kubectl -n ns get sleepinfo -o json`
SleepInfoItems(cl, ns, tenant) ==
    SelectSeq(ItemOrder(tenant), LAMBDA n : n \in cl[ns].sleepinfos)

\* the names of the "items" of `kubectl -n ns get secrets -o json`
SecretItems(cl, ns, tenant) ==
    SelectSeq(SecretOrder(tenant), LAMBDA s : s \in cl[ns].secrets)

\* kubectl_get_sleepinfo: the listing, or None when kubectl fails
kubectl_get_sleepinfo(cl, ns, tenant, failing) ==
    IF Succeeds(cl, Request("get", ns, "sleepinfo", <<>>), failing)
    THEN Some(SleepInfoItems(cl, ns, tenant))
    ELSE None

\* `kubectl -n ns delete kind name --ignore-not-found`, run with check=False
KubectlDelete(st, ns, kind, name, failing) ==
    LET ok == Succeeds(st.cluster, Request("delete", ns, kind, name), failing) IN
    [calls   |-> Append(st.calls, Call("delete", ns, kind, name, ok)),
     cluster |->
        IF ~ok THEN st.cluster
        ELSE IF kind = "sleepinfo"
        THEN [st.cluster EXCEPT ![ns].sleepinfos = @ \ {name[1]}]
        ELSE [st.cluster EXCEPT ![ns].secrets = @ \ {name}]]

\* the target_suffixes of reconcile_sleepinfos and cleanup_orphan_secrets:
\* the tokens of the filter that are valid as written, in the order given;
\* None when a filter was given and no token of it is valid
TargetSuffixes(selected_suffixes) ==
    IF ~Truthy(selected_suffixes) THEN Some(VALID_SUFFIXES)
    ELSE LET parts == ReSplitSeps(Strip(selected_suffixes[1]))
             kept  == SelectSeq(parts, LAMBDA s : Len(s) = 1 /\ s[1] \in ValidSuffixSet)
         IN  IF kept = <<>> THEN None ELSE Some([i \in 1..Len(kept) |-> kept[i][1]])

\* check_and_wake_deployments: one listing of the deployments per namespace,
\* which only informs
RECURSIVE CheckNamespaces(_, _, _)
CheckNamespaces(namespaces, cl, log) ==
    IF namespaces = <<>> THEN log
    ELSE CheckNamespaces(Tail(namespaces), cl,
             Append(log, Call("get", Head(namespaces), "deployments", <<>>,
                              NsExists(cl, Head(namespaces)))))

check_and_wake_deployments(tenant, selected_suffixes, cl, log) ==
    CheckNamespaces(namespaces_for_tenant(tenant, selected_suffixes), cl, log)

\* the documents of the YAML that kubectl apply can create or update
Applicable(docs, cl) == SelectSeq(docs, LAMBDA d : NsExists(cl, d.metadata.namespace))

RECURSIVE ApplyDocs(_, _)
ApplyDocs(docs, cl) ==
    IF docs = <<>> THEN cl
    ELSE ApplyDocs(Tail(docs),
             [cl EXCEPT ![Head(docs).metadata.namespace].sleepinfos =
                            @ \cup {Head(docs).metadata.name}])

\* a variant that deletes every listed SleepInfo, wanted or not
RECURSIVE ReconcileItems_all(_, _, _, _, _)
ReconcileItems_all(ns, items, desired_names, st, failing) ==
    IF items = <<>> THEN st
    ELSE LET name == Head(items)
             st1  == KubectlDelete(st, ns, "sleepinfo", <<name>>, failing)
             st2  == KubectlDelete(st1, ns, "secret", <<"sleepinfo-", name>>, failing)
         IN  ReconcileItems_all(ns, Tail(items), desired_names, st2, failing)

\* the inner loop of reconcile_sleepinfos over the items of a namespace
RECURSIVE ReconcileItems(_, _, _, _, _)
ReconcileItems(ns, items, desired_names, st, failing) ==
    IF items = <<>> THEN st
    ELSE LET name == Head(items) IN
         IF name \in desired_names
         THEN ReconcileItems(ns, Tail(items), desired_names, st, failing)
         ELSE LET st1 == KubectlDelete(st, ns, "sleepinfo", <<name>>, failing)
                  st2 == KubectlDelete(st1, ns, "secret", <<"sleepinfo-", name>>, failing)
              IN  ReconcileItems(ns, Tail(items), desired_names, st2, failing)

\* the loop of reconcile_sleepinfos over target_suffixes
RECURSIVE ReconcileSuffixes(_, _, _, _, _)
ReconcileSuffixes(tenant, sufs, desired_names, st, failing) ==
    IF sufs = <<>> THEN st
    ELSE LET ns   == NsName(tenant, Head(sufs))
             data == kubectl_get_sleepinfo(st.cluster, ns, tenant, failing)
             st1  == [st EXCEPT !.calls =
                          Append(@, Call("get", ns, "sleepinfo", <<>>, data # None))]
         IN  IF data = None
             THEN ReconcileSuffixes(tenant, Tail(sufs), desired_names, st1, failing)
             ELSE ReconcileSuffixes(tenant, Tail(sufs), desired_names,
                      ReconcileItems(ns, data[1], desired_names, st1, failing), failing)

reconcile_sleepinfos(tenant, yaml_objs, selected_suffixes, st, failing) ==
    LET target_suffixes == TargetSuffixes(selected_suffixes)
        desired_names   == {yaml_objs[i].metadata.name : i \in 1..Len(yaml_objs)}
    IN  IF target_suffixes = None THEN st
        ELSE ReconcileSuffixes(tenant, target_suffixes[1], desired_names, st, failing)

\* the inner loop of cleanup_orphan_secrets over the Secrets of a namespace
RECURSIVE CleanupSecrets(_, _, _, _, _)
CleanupSecrets(ns, secrets, existing_sleepinfos, st, failing) ==
    IF secrets = <<>> THEN st
    ELSE LET secret_name == Head(secrets) IN
         IF Head(secret_name) # "sleepinfo-" \/ Len(secret_name) # 2
         THEN CleanupSecrets(ns, Tail(secrets), existing_sleepinfos, st, failing)
         ELSE IF secret_name[2] \in existing_sleepinfos
         THEN CleanupSecrets(ns, Tail(secrets), existing_sleepinfos, st, failing)
         ELSE CleanupSecrets(ns, Tail(secrets), existing_sleepinfos,
                  KubectlDelete(st, ns, "secret", secret_name, failing), failing)

\* the loop of cleanup_orphan_secrets over target_suffixes
RECURSIVE CleanupSuffixes(_, _, _, _)
CleanupSuffixes(tenant, sufs, st, failing) ==
    IF sufs = <<>> THEN st
    ELSE LET ns     == NsName(tenant, Head(sufs))
             listed == Succeeds(st.cluster, Request("get", ns, "secrets", <<>>), failing)
             st1    == [st EXCEPT !.calls =
                            Append(@, Call("get", ns, "secrets", <<>>, listed))]
         IN  IF ~listed THEN CleanupSuffixes(tenant, Tail(sufs), st1, failing)
             ELSE LET data == kubectl_get_sleepinfo(st1.cluster, ns, tenant, failing)
                      st2  == [st1 EXCEPT !.calls =
                                   Append(@, Call("get", ns, "sleepinfo", <<>>, data # None))]
                      existing_sleepinfos ==
                          IF data = None THEN {} ELSE SeqSet(data[1])
                  IN  CleanupSuffixes(tenant, Tail(sufs),
                          CleanupSecrets(ns, SecretItems(st2.cluster, ns, tenant),
                                         existing_sleepinfos, st2, failing),
                          failing)

cleanup_orphan_secrets(tenant, selected_suffixes, st, failing) ==
    LET target_suffixes == TargetSuffixes(selected_suffixes) IN
    IF target_suffixes = None THEN st
    ELSE CleanupSuffixes(tenant, target_suffixes[1], st, failing)

\* the requests a sequence of invocations made
RequestsOf(log) ==
    {Request(log[i].verb, log[i].ns, log[i].kind, log[i].name) : i \in 1..Len(log)}

-----------------------------------------------------------------------------
(* A run of create or update.                                              *)

Tenants == {"acme", "bdadevprd"}

Text(h, m) == HHMM(h, m)

OffTimes == {Text(22, 0), Text(3, 0), Text(18, 59)}

OnTimes ==
    {Text(6, 0), Text(14, 25), Text(18, 52), Text(18, 53), Text(18, 58), Text(19, 0),
     Text(23, 30)}

WeekdayArgs ==
    { <<"0", "-", "6">>,
      <<"lunes", "-", "viernes">>,
      <<"1", "-", "5">>,
      <<"SÁBADO">>,
      <<"Viernes", "-", "lunes">>,
      <<"8">>,
      <<"1", "-", "3", "-", "5">>,
      <<"lunez">>,
      <<",">> }

SleepdayArgs ==
    { None, Some(<<"Viernes">>), Some(<<"1", ",", "2", ",", "3", ",", "4", ",", "5">>),
      Some(<<"lunes", "-", "lunez">>) }

WakedayArgs ==
    { None, Some(<<"lunes">>), Some(<<"5">>), Some(<<"Viernes">>) }

NamespaceArgs ==
    { None, Some(<<"apps">>), Some(<<"APPS", ",", "datastores">>),
      Some(<<"Rocket", " ", "lunez">>) }

\* create without --outdir and without --apply
ArgSets ==
    [cmd : {"create"}, tenant : Tenants, off : OffTimes, on : OnTimes,
     weekdays : WeekdayArgs, sleepdays : SleepdayArgs, wakedays : WakedayArgs,
     namespaces : NamespaceArgs, outdir : {None}, apply : {FALSE}]

NsState(exists, sleepinfos, secrets) ==
    [exists |-> exists, sleepinfos |-> sleepinfos, secrets |-> secrets]

\* the five namespaces of the tenant, empty
EmptyCluster(tenant) ==
    [ns \in {NsName(tenant, s) : s \in ValidSuffixSet} |-> NsState(TRUE, {}, {})]

MainIdle ==
    /\ pc = "idle"
    /\ args = <<>>
    /\ objs = <<>>
    /\ yaml = <<>>
    /\ stderr = <<>>
    /\ exitCode = "running"
    /\ output = <<>>
    /\ calls = <<>>
    /\ cluster = <<>>

MainInit ==
    /\ pc = "start"
    /\ args \in ArgSets
    /\ objs = <<>>
    /\ yaml = <<>>
    /\ stderr = <<>>
    /\ exitCode = "running"
    /\ output = <<>>
    /\ calls = <<>>
    /\ cluster = EmptyCluster(args.tenant)

\* objs = make_all_objects_for_tenant(...), or the end of the process
Generate ==
    /\ pc = "start"
    /\ \E today \in Days : \E r \in {make_all_objects_for_tenant(args, today)} :
          IF r.status = "ok"
          THEN /\ objs' = r.objs
               /\ pc' = "generated"
               /\ UNCHANGED <<stderr, exitCode>>
          ELSE /\ pc' = "exited"
               /\ stderr' = <<r.status, r.err>>
               /\ exitCode' = "1"
               /\ UNCHANGED objs
    /\ UNCHANGED <<args, yaml, output, calls, cluster>>
    /\ UNCHANGED <<wdVars, tmVars, nsVars>>

\* one thing printed to stdout or written to a file
Output(to, what, path, docs) == [to |-> to, what |-> what, path |-> path, docs |-> docs]

\* write_or_print: the file {outdir}/{tenant}.sleepinfos.yaml and a line that
\* names it, or the YAML on stdout
write_or_print(yaml_str, outdir, tenant) ==
    IF Truthy(outdir)
    THEN LET fn == outdir[1] \o <<"/", tenant \o ".sleepinfos.yaml">> IN
         << Output("file", "yaml", fn, yaml_str), Output("stdout", "rendered", fn, <<>>) >>
    ELSE << Output("stdout", "yaml", <<>>, yaml_str) >>

\* yaml_text = to_yaml_docs(objs); write_or_print(yaml_text, ...); without
\* --apply main ends here
Render ==
    /\ pc = "generated"
    /\ yaml' = to_yaml_docs(objs)
    /\ output' = output \o write_or_print(to_yaml_docs(objs), args.outdir, args.tenant)
    /\ pc' = "rendered"
    /\ exitCode' = IF args.apply THEN "running" ELSE "0"
    /\ UNCHANGED <<args, objs, stderr, calls, cluster>>
    /\ UNCHANGED <<wdVars, tmVars, nsVars>>

\* a variant that goes on to the cluster without --apply
CheckDeployments_unguarded ==
    /\ pc = "rendered"
    /\ calls' = check_and_wake_deployments(args.tenant, args.namespaces, cluster, calls)
    /\ pc' = "checked"
    /\ UNCHANGED <<args, objs, yaml, stderr, exitCode, output, cluster>>
    /\ UNCHANGED <<wdVars, tmVars, nsVars>>

\* check_and_wake_deployments(args.tenant, selected_suffixes=args.namespaces)
CheckDeployments ==
    /\ pc = "rendered"
    /\ args.apply
    /\ calls' = check_and_wake_deployments(args.tenant, args.namespaces, cluster, calls)
    /\ pc' = "checked"
    /\ UNCHANGED <<args, objs, yaml, stderr, exitCode, output, cluster>>
    /\ UNCHANGED <<wdVars, tmVars, nsVars>>

\* a variant that goes on after kubectl apply failed
ApplyYaml_unchecked ==
    /\ pc = "checked"
    /\ \E reachable \in BOOLEAN :
          LET applied == IF reachable THEN Applicable(yaml, cluster) ELSE <<>>
              ok      == reachable /\ applied = yaml
          IN  /\ cluster' = ApplyDocs(applied, cluster)
              /\ calls' = Append(calls, Call("apply", "", "yaml", <<>>, ok))
              /\ output' = Append(output, Output("stdout", "kubectl stdout", <<>>, applied))
    /\ pc' = "applied"
    /\ UNCHANGED <<args, objs, yaml, stderr, exitCode>>
    /\ UNCHANGED <<wdVars, tmVars, nsVars>>

\* apply_yaml(yaml_text): kubectl reaches the cluster or not; when it does,
\* it applies the documents whose namespace exists and exits with status 0
\* when it applied them all
ApplyYaml ==
    /\ pc = "checked"
    /\ \E reachable \in BOOLEAN :
          LET applied == IF reachable THEN Applicable(yaml, cluster) ELSE <<>>
              ok      == reachable /\ applied = yaml
          IN  /\ cluster' = ApplyDocs(applied, cluster)
              /\ calls' = Append(calls, Call("apply", "", "yaml", <<>>, ok))
              /\ output' = Append(output, Output("stdout", "kubectl stdout", <<>>, applied))
              /\ IF ok
                 THEN /\ pc' = "applied"
                      /\ UNCHANGED <<stderr, exitCode>>
                 ELSE /\ pc' = "exited"
                      /\ stderr' = <<"kubectl stderr", <<>>>>
                      /\ exitCode' = "1"
    /\ UNCHANGED <<args, objs, yaml>>
    /\ UNCHANGED <<wdVars, tmVars, nsVars>>

\* the largest number of kubectl invocations that fail for a reason of their
\* own within one function
MaxFailures == 1

RECURSIVE FailingSets(_, _)
FailingSets(requests, k) ==
    IF k = 0 THEN {{}}
    ELSE FailingSets(requests, k - 1)
             \cup {f \cup {r} : f \in FailingSets(requests, k - 1), r \in requests}

\* reconcile_sleepinfos(args.tenant, objs, selected_suffixes=args.namespaces)
ReconcileSleepinfos ==
    /\ pc = "applied"
    /\ LET st0  == [calls |-> <<>>, cluster |-> cluster]
           reqs == RequestsOf(reconcile_sleepinfos(args.tenant, objs, args.namespaces, st0, {}).calls)
       IN  \E failing \in FailingSets(reqs, MaxFailures) :
           \E st \in {reconcile_sleepinfos(args.tenant, objs, args.namespaces, st0, failing)} :
               /\ calls' = calls \o st.calls
               /\ cluster' = st.cluster
    /\ pc' = "reconciled"
    /\ UNCHANGED <<args, objs, yaml, stderr, exitCode, output>>
    /\ UNCHANGED <<wdVars, tmVars, nsVars>>

\* cleanup_orphan_secrets(args.tenant, selected_suffixes=args.namespaces);
\* main ends after it
CleanupOrphanSecrets ==
    /\ pc = "reconciled"
    /\ LET st0  == [calls |-> <<>>, cluster |-> cluster]
           reqs == RequestsOf(cleanup_orphan_secrets(args.tenant, args.namespaces, st0, {}).calls)
       IN  \E failing \in FailingSets(reqs, MaxFailures) :
           \E st \in {cleanup_orphan_secrets(args.tenant, args.namespaces, st0, failing)} :
               /\ calls' = calls \o st.calls
               /\ cluster' = st.cluster
    /\ pc' = "done"
    /\ exitCode' = "0"
    /\ UNCHANGED <<args, objs, yaml, stderr, output>>
    /\ UNCHANGED <<wdVars, tmVars, nsVars>>

-----------------------------------------------------------------------------
(* A run of create or update with or without --apply, on a cluster that     *)
(* earlier runs and other tools left in some state.                        *)

\* create and update take the same options, save that update has no --outdir
CommandArgs ==
    {[cmd |-> "create", outdir |-> None], [cmd |-> "create", outdir |-> Some(<<"out">>)],
     [cmd |-> "update", outdir |-> None]}

ApplyArgs(c, weekdays, sleepdays, namespaces, apply) ==
    [cmd |-> c.cmd, tenant |-> "acme", off |-> Text(22, 0), on |-> Text(6, 0),
     weekdays |-> weekdays, sleepdays |-> sleepdays, wakedays |-> None,
     namespaces |-> namespaces, outdir |-> c.outdir, apply |-> apply]

ApplyArgSets ==
    {ApplyArgs(c, w, None, None, a) :
        c \in CommandArgs, w \in {<<"lunes", "-", "viernes">>, <<"lunez">>}, a \in BOOLEAN}
    \cup
    {ApplyArgs([cmd |-> "create", outdir |-> None], <<"8">>, None, None, a) : a \in BOOLEAN}
    \cup
    {ApplyArgs([cmd |-> "create", outdir |-> None], <<"lunes", "-", "viernes">>, s, n, TRUE) :
        s \in {None, Some(<<"Viernes">>)}, n \in NamespaceArgs}

AppsStates(tenant) ==
    { NsState(TRUE, {}, {}),
      NsState(FALSE, {}, {}),
      NsState(TRUE, {tenant \o "-apps"},
              {<<"sleepinfo-", tenant \o "-apps">>, <<"db-credentials">>}),
      NsState(TRUE, {"sleep-" \o tenant \o "-apps", "wake-" \o tenant \o "-apps", "legacy"},
              {<<"sleepinfo-", "sleep-" \o tenant \o "-apps">>, <<"sleepinfo-", "legacy">>,
               <<"sleepinfo-", "wake-" \o tenant \o "-rocket">>, <<"db-credentials">>}) }

DatastoresStates(tenant) ==
    { NsState(TRUE, {}, {}),
      NsState(FALSE, {}, {}),
      NsState(TRUE,
              {"sleep-ds-deploys-" \o tenant, "wake-ds-deploys-" \o tenant,
               "wake-ds-deploys-" \o tenant \o "-pg-hdfs",
               "wake-ds-deploys-" \o tenant \o "-pgbouncer", "legacy"},
              {<<"sleepinfo-", "legacy">>, <<"sleepinfo-", tenant \o "-apps">>}) }

\* rocket, intelligence and airflowsso: all three exist, rocket with the
\* object of an earlier run, or none of them exists
OtherStates(tenant) ==
    { (NsName(tenant, "rocket") :>
           NsState(TRUE, {tenant \o "-rocket"}, {<<"sleepinfo-", tenant \o "-rocket">>}))
      @@ (NsName(tenant, "intelligence") :> NsState(TRUE, {}, {}))
      @@ (NsName(tenant, "airflowsso") :> NsState(TRUE, {}, {})),
      [ns \in {NsName(tenant, s) : s \in {"rocket", "intelligence", "airflowsso"}} |->
           NsState(FALSE, {}, {})] }

\* the datastores namespace is empty or missing only where the other three exist
ClusterStates(tenant) ==
    { (NsName(tenant, "datastores") :> d) @@ (NsName(tenant, "apps") :> a) @@ o :
        d \in DatastoresStates(tenant), a \in AppsStates(tenant), o \in OtherStates(tenant) }
    \ { (NsName(tenant, "datastores") :> d) @@ (NsName(tenant, "apps") :> a) @@ o :
        d \in {NsState(TRUE, {}, {}), NsState(FALSE, {}, {})}, a \in AppsStates(tenant),
        o \in {[ns \in {NsName(tenant, s) : s \in {"rocket", "intelligence", "airflowsso"}} |->
                   NsState(FALSE, {}, {})]} }

ApplyInit ==
    /\ pc = "start"
    /\ args \in ApplyArgSets
    /\ objs = <<>>
    /\ yaml = <<>>
    /\ stderr = <<>>
    /\ exitCode = "running"
    /\ output = <<>>
    /\ calls = <<>>
    /\ cluster \in ClusterStates("acme")

-----------------------------------------------------------------------------
(* Specifications.                                                         *)

WdIdle ==
    /\ wdPc = "idle"
    /\ wdRaw = <<>>
    /\ wdKube = Unset
    /\ wdKube2 = Unset
    /\ wdHuman = Unset
    /\ wdExpand = Unset
    /\ wdExpandK = Unset
    /\ ShIdle

TmIdle ==
    /\ tmPc = "idle"
    /\ tmLocal = <<>>
    /\ tmUtc = Unset
    /\ tmN = 0
    /\ tmPlus = Unset
    /\ tmChain = Unset

NsIdle ==
    /\ nsPc = "idle"
    /\ nsArg = None
    /\ nsSel = {}
    /\ nsWarn = <<>>
    /\ nsList = <<>>

Init == MainInit /\ WdIdle /\ TmIdle /\ NsIdle

Next == Generate \/ Render

Spec == Init /\ [][Next]_vars

InitWd == WdInit /\ TmIdle /\ NsIdle /\ MainIdle

NextWd == WdParse \/ WdReparse \/ WdFormat \/ WdExpand \/ WdShift \/ WdShiftAgain

SpecWd == InitWd /\ [][NextWd]_vars

InitTime == TmInit /\ WdIdle /\ NsIdle /\ MainIdle

NextTime == TmToUtc \/ TmAddMinutes \/ TmStagger

SpecTime == InitTime /\ [][NextTime]_vars

InitApply == ApplyInit /\ WdIdle /\ TmIdle /\ NsIdle

NextApply ==
    Generate \/ Render \/ CheckDeployments \/ ApplyYaml \/ ReconcileSleepinfos
        \/ CleanupOrphanSecrets

SpecApply == InitApply /\ [][NextApply]_vars

InitNs == NsInit /\ WdIdle /\ TmIdle /\ MainIdle

NextNs == NsNormalize \/ NsForTenant

SpecNs == InitNs /\ [][NextNs]_vars

-----------------------------------------------------------------------------
(* Properties.  The reference notions below are those of the               *)
(* specification: a time of day is a number of minutes after midnight, a   *)
(* weekday spec denotes a set of day indexes.                              *)

\* a text that reads HH:MM with HH in 00..23 and MM in 00..59
IsHHMM(t) ==
    /\ Len(t) = 5
    /\ t[3] = ":"
    /\ \A i \in {1, 2, 4, 5} : t[i] \in Digits
    /\ DigitVal(t[1]) * 10 + DigitVal(t[2]) \in 0..23
    /\ DigitVal(t[4]) * 10 + DigitVal(t[5]) \in 0..59

RefHour(t) == DigitVal(t[1]) * 10 + DigitVal(t[2])

RefMinute(t) == DigitVal(t[4]) * 10 + DigitVal(t[5])

\* minutes after midnight of a text HH:MM
RefMinutes(t) == RefHour(t) * 60 + RefMinute(t)

\* the index of a day, given by its name in any case and accent or by its digit
RefDayIndex(w) ==
    CASE w \in {"domingo"} -> 0
      [] w \in {"lunes", "LUNES"} -> 1
      [] w \in {"martes"} -> 2
      [] w \in {"miercoles", "miércoles", "Miércoles"} -> 3
      [] w \in {"jueves"} -> 4
      [] w \in {"viernes", "Viernes"} -> 5
      [] w \in {"sabado", "sábado", "SÁBADO"} -> 6
      [] w \in {"0", "1", "2", "3", "4", "5", "6"} -> DigitVal(w)
      [] OTHER -> -1

RefIsDay(w) == RefDayIndex(w) \in 0..6

\* the days of a range, wrapping through 6 to 0 when the end is before the start
RefRange(a, b) == IF a <= b THEN a..b ELSE (a..6) \cup (0..b)

\* an item of a spec: one day, or one range of two days written alike
RefItemOk(it) ==
    \/ Len(it) = 1 /\ RefIsDay(it[1])
    \/ /\ Len(it) = 3
       /\ it[2] = "-"
       /\ RefIsDay(it[1])
       /\ RefIsDay(it[3])
       /\ (it[1] \in Digits) = (it[3] \in Digits)

RefItem(it) ==
    IF Len(it) = 1 THEN {RefDayIndex(it[1])}
    ELSE RefRange(RefDayIndex(it[1]), RefDayIndex(it[3]))

RefItems(s) == NonEmptyParts(Split(RemoveSpaces(s), ","))

\* a blank spec, or a comma list of at least one item
RefWellFormed(s) ==
    \/ RemoveSpaces(s) = <<>>
    \/ /\ RefItems(s) # <<>>
       /\ \A i \in 1..Len(RefItems(s)) : RefItemOk(RefItems(s)[i])

\* the set of days a well-formed spec denotes; a blank spec denotes every day
RefDays(s) ==
    IF RemoveSpaces(s) = <<>> THEN 0..6
    ELSE UNION {RefItem(RefItems(s)[i]) : i \in 1..Len(RefItems(s))}

\* the set of days a comma list of day names names
RefNamedDays(h) == {RefDayIndex(h[i]) : i \in {j \in 1..Len(h) : h[j] # ","}}

\* digits separated by "-" or ",", blanks aside
RefNumeric(s) ==
    LET t == RemoveSpaces(s) IN
    /\ Len(t) % 2 = 1
    /\ \A i \in 1..Len(t) : IF i % 2 = 1 THEN t[i] \in Digits ELSE t[i] \in {"-", ","}

\* one range whose end index is smaller than its start index
RefIsWrapRange(s) ==
    LET t == RemoveSpaces(s) IN
    /\ Len(t) = 3
    /\ RefItemOk(t)
    /\ RefDayIndex(t[3]) < RefDayIndex(t[1])

\* a, a+1, ..., 6, 0, ..., b
RefWrap(a, b) == [i \in 1..(7 - a + b + 1) |-> (a + i - 1) % 7]

\* the run has generated its objects
Generated == pc \in {"generated", "rendered"}

SimpleGroups == {"apps", "rocket", "intelligence", "airflowsso"}

\* the groups the run selected
Selected == normalize_namespaces(args.namespaces)

\* the objects emitted for a group, in order
NsObjs(g) == SelectSeq(objs, LAMBDA o : o.metadata.namespace = args.tenant \o "-" \o g)

\* the emitted object of a name, if any
Named(name) == SelectSeq(objs, LAMBDA o : o.metadata.name = name)

HasAnnotation(o, key) ==
    /\ "annotations" \in DOMAIN o.metadata
    /\ key \in DOMAIN o.metadata.annotations

PairRole(o) == IF HasAnnotation(o, PAIR_ROLE) THEN o.metadata.annotations[PAIR_ROLE] ELSE "none"

PairId(o) == IF HasAnnotation(o, PAIR_ID) THEN o.metadata.annotations[PAIR_ID] ELSE "none"

\* a combined object carries both the off time and the on time
IsCombined(o) == {"sleepAt", "wakeUpAt"} \subseteq DOMAIN o.spec /\ PairRole(o) = "none"

\* a comma list of digits
IsDigitList(w) ==
    /\ Len(w) % 2 = 1
    /\ \A i \in 1..Len(w) : IF i % 2 = 1 THEN w[i] \in Digits ELSE w[i] = ","

\* the weekday set an emitted object carries
WeekdaySet(o) ==
    {DigitVal(o.spec.weekdays[i]) :
        i \in {j \in 1..Len(o.spec.weekdays) : o.spec.weekdays[j] \in Digits}}

\* the sleep-day and wake-day inputs in effect: the option given, else --weekdays
EffSleep == IF args.sleepdays # None THEN args.sleepdays[1] ELSE args.weekdays

EffWake == IF args.wakedays # None THEN args.wakedays[1] ELSE args.weekdays

\* UTC is five hours ahead of the local zone
RefUtcMinutes(local) == (RefMinutes(local) + 5 * 60) % (24 * 60)

RefDayShift(local) == (RefMinutes(local) + 5 * 60) \div (24 * 60)

RefShifted(days, by) == {(n + by) % 7 : n \in days}

RefSleepUtc == RefShifted(RefDays(EffSleep), RefDayShift(args.off))

RefWakeUtc == RefShifted(RefDays(EffWake), RefDayShift(args.on))

\* one sleep object and three wake objects, all of one pair-id
IsDatastoresFour(os) ==
    /\ Len(os) = 4
    /\ Cardinality({i \in 1..4 : PairRole(os[i]) = "sleep"}) = 1
    /\ Cardinality({i \in 1..4 : PairRole(os[i]) = "wake"}) = 3
    /\ \A i \in 1..4 : PairId(os[i]) = PairId(os[1]) /\ PairId(os[i]) # "none"
    /\ \A i \in 1..4 : "wakeUpAt" \notin DOMAIN os[i].spec

\* C1: the three datastores wake objects carry the same wake weekday set and
\* their trigger times increase as times of day: pg-hdfs (T0) before
\* pgbouncer (T1) before the native workloads (T2).
C1_WakeOrder ==
    (/\ Generated
     /\ RefWellFormed(EffSleep) /\ RefWellFormed(EffWake)
     /\ "datastores" \in Selected) =>
        LET pg_hdfs   == Named("wake-ds-deploys-" \o args.tenant \o "-pg-hdfs")
            pgbouncer == Named("wake-ds-deploys-" \o args.tenant \o "-pgbouncer")
            native    == Named("wake-ds-deploys-" \o args.tenant)
        IN  /\ Len(pg_hdfs) = 1 /\ Len(pgbouncer) = 1 /\ Len(native) = 1
            /\ WeekdaySet(pg_hdfs[1]) = WeekdaySet(pgbouncer[1])
            /\ WeekdaySet(pgbouncer[1]) = WeekdaySet(native[1])
            /\ RefMinutes(pg_hdfs[1].spec.sleepAt) < RefMinutes(pgbouncer[1].spec.sleepAt)
            /\ RefMinutes(pgbouncer[1].spec.sleepAt) < RefMinutes(native[1].spec.sleepAt)

\* what C2 promises of a run
EqualInputLayout ==
    /\ \A g \in SimpleGroups \cap Selected :
          Len(NsObjs(g)) = 1 /\ IsCombined(NsObjs(g)[1])
    /\ "datastores" \in Selected => IsDatastoresFour(NsObjs("datastores"))

\* C2 as stated: whenever the sleep-day input and the wake-day input are the
\* same weekday spec, every selected simple group gets exactly one combined
\* object and datastores gets exactly four correlated objects, for every off
\* time and on time.
C2_EqualInput ==
    (Generated /\ RefWellFormed(EffSleep) /\ EffSleep = EffWake) => EqualInputLayout

\* C2 amended: whenever the sleep-day input and the wake-day input are the
\* same weekday spec and, besides, the off time and the on time convert to
\* UTC with the same day shift or the spec covers all seven days, every
\* selected simple group gets exactly one combined object and datastores gets
\* exactly four correlated objects.
C2_EqualInputSameShift ==
    (/\ Generated
     /\ EffSleep = EffWake
     /\ \/ RefDayShift(args.off) = RefDayShift(args.on)
        \/ RefDays(EffSleep) = 0..6) => EqualInputLayout

\* Monday to Friday for both, off 03:00 and on 06:00 local (no day shift for
\* either), every group selected: eight objects, four of them combined
C2_Witness ==
    /\ pc = "generated"
    /\ args.weekdays = <<"lunes", "-", "viernes">>
    /\ args.sleepdays = None /\ args.wakedays = None /\ args.namespaces = None
    /\ args.off = <<"0", "3", ":", "0", "0">>
    /\ args.on = <<"0", "6", ":", "0", "0">>
    /\ Len(objs) = 8
    /\ \A g \in SimpleGroups : Len(NsObjs(g)) = 1 /\ IsCombined(NsObjs(g)[1])

\* C3: for each selected group among apps, rocket, intelligence and
\* airflowsso, exactly one combined object is emitted if and only if the
\* UTC-shifted sleep weekday set equals the UTC-shifted wake weekday set as
\* sets, whatever the order and notation; otherwise exactly two objects are
\* emitted, one of pair-role sleep and one of pair-role wake.
C3_LayoutDecision ==
    (Generated /\ RefWellFormed(EffSleep) /\ RefWellFormed(EffWake)) =>
        \A g \in SimpleGroups \cap Selected :
            LET os == NsObjs(g) IN
            IF RefSleepUtc = RefWakeUtc
            THEN Len(os) = 1 /\ IsCombined(os[1])
            ELSE /\ Len(os) = 2
                 /\ {PairRole(os[1]), PairRole(os[2])} = {"sleep", "wake"}
                 /\ ~IsCombined(os[1]) /\ ~IsCombined(os[2])

\* every day, off 22:00 (shift +1) and on 06:00 (shift 0): the shifted lists
\* differ in order, 1,2,3,4,5,6,0 against 0,1,2,3,4,5,6, and apps gets one
\* combined object
C3_Witness ==
    /\ pc = "generated"
    /\ args.weekdays = <<"0", "-", "6">>
    /\ args.sleepdays = None /\ args.wakedays = None
    /\ args.off = <<"2", "2", ":", "0", "0">>
    /\ args.on = <<"0", "6", ":", "0", "0">>
    /\ Len(NsObjs("apps")) = 1
    /\ IsCombined(NsObjs("apps")[1])
    /\ NsObjs("apps")[1].spec.weekdays
           = <<"1", ",", "2", ",", "3", ",", "4", ",", "5", ",", "6", ",", "0">>

\* C4: when the shifted sleep and wake weekday sets differ, each selected
\* simple group gets a sleep object whose sleepAt is the UTC off time, whose
\* weekdays are the shifted sleep weekdays and which has no wakeUpAt, and a
\* wake object with no wakeUpAt, whose sleepAt is the UTC wake-trigger time
\* (the on time plus the seven minutes of the application tier) and whose
\* weekdays are the shifted wake weekdays; both carry the same pair-id, with
\* pair-role sleep and wake.
C4_UnequalLayout ==
    (/\ Generated
     /\ RefWellFormed(EffSleep) /\ RefWellFormed(EffWake)
     /\ RefSleepUtc # RefWakeUtc) =>
        \A g \in SimpleGroups \cap Selected :
            LET os == NsObjs(g) IN
            /\ Len(os) = 2
            /\ \E i, j \in 1..2 :
                  /\ i # j
                  /\ PairRole(os[i]) = "sleep"
                  /\ "wakeUpAt" \notin DOMAIN os[i].spec
                  /\ IsHHMM(os[i].spec.sleepAt)
                  /\ RefMinutes(os[i].spec.sleepAt) = RefUtcMinutes(args.off)
                  /\ IsDigitList(os[i].spec.weekdays)
                  /\ WeekdaySet(os[i]) = RefSleepUtc
                  /\ PairRole(os[j]) = "wake"
                  /\ "wakeUpAt" \notin DOMAIN os[j].spec
                  /\ IsHHMM(os[j].spec.sleepAt)
                  /\ RefMinutes(os[j].spec.sleepAt)
                         = (RefUtcMinutes(args.on) + 7) % (24 * 60)
                  /\ IsDigitList(os[j].spec.weekdays)
                  /\ WeekdaySet(os[j]) = RefWakeUtc
                  /\ PairId(os[i]) = PairId(os[j])
                  /\ PairId(os[i]) # "none"

\* sleep on Friday, wake on Monday, off 22:00 and on 06:00: apps sleeps on
\* Saturday 03:00 UTC and wakes on Monday 11:07 UTC
C4_Witness ==
    /\ pc = "generated"
    /\ args.sleepdays = Some(<<"Viernes">>)
    /\ args.wakedays = Some(<<"lunes">>)
    /\ args.off = <<"2", "2", ":", "0", "0">>
    /\ args.on = <<"0", "6", ":", "0", "0">>
    /\ Len(NsObjs("apps")) = 2
    /\ NsObjs("apps")[1].spec.sleepAt = <<"0", "3", ":", "0", "0">>
    /\ NsObjs("apps")[1].spec.weekdays = <<"6">>
    /\ NsObjs("apps")[2].spec.sleepAt = <<"1", "1", ":", "0", "7">>
    /\ NsObjs("apps")[2].spec.weekdays = <<"1">>

\* the run of the scenario of C5
IsScenario ==
    /\ args.tenant = "acme"
    /\ args.off = <<"2", "2", ":", "0", "0">>
    /\ args.on = <<"0", "6", ":", "0", "0">>
    /\ args.weekdays = <<"lunes", "-", "viernes">>
    /\ args.sleepdays = None
    /\ args.wakedays = None

\* C5: for tenant acme, off 22:00, on 06:00 and weekdays lunes-viernes, the
\* datastores group emits one sleep object with sleepAt 03:00 and weekdays
\* {2,3,4,5,6}, and three wake objects at 11:00 (pg-hdfs), 11:05 (pgbouncer)
\* and 11:07 (native) with weekdays {1,2,3,4,5}.
C5_Scenario ==
    (Generated /\ IsScenario /\ "datastores" \in Selected) =>
        LET os        == NsObjs("datastores")
            sleep     == Named("sleep-ds-deploys-acme")
            pg_hdfs   == Named("wake-ds-deploys-acme-pg-hdfs")
            pgbouncer == Named("wake-ds-deploys-acme-pgbouncer")
            native    == Named("wake-ds-deploys-acme")
        IN  /\ IsDatastoresFour(os)
            /\ Len(sleep) = 1 /\ Len(pg_hdfs) = 1 /\ Len(pgbouncer) = 1 /\ Len(native) = 1
            /\ PairRole(sleep[1]) = "sleep"
            /\ sleep[1].spec.sleepAt = <<"0", "3", ":", "0", "0">>
            /\ sleep[1].spec.weekdays = <<"2", ",", "3", ",", "4", ",", "5", ",", "6">>
            /\ pg_hdfs[1].spec.sleepAt = <<"1", "1", ":", "0", "0">>
            /\ pgbouncer[1].spec.sleepAt = <<"1", "1", ":", "0", "5">>
            /\ native[1].spec.sleepAt = <<"1", "1", ":", "0", "7">>
            /\ \A w \in {pg_hdfs[1], pgbouncer[1], native[1]} :
                  /\ PairRole(w) = "wake"
                  /\ w.spec.weekdays = <<"1", ",", "2", ",", "3", ",", "4", ",", "5">>
                  /\ w.spec.timeZone = "UTC"

\* the scenario was generated with datastores selected
C5_Witness ==
    /\ pc = "generated"
    /\ IsScenario
    /\ args.namespaces = None
    /\ Len(NsObjs("datastores")) = 4
    /\ NsObjs("datastores")[1].spec.sleepAt = <<"0", "3", ":", "0", "0">>

\* C6: for every local time HH:MM, the conversion to UTC yields
\* ((HH + 5) mod 24):MM; the day shift is +1 exactly when HH >= 19 and 0
\* otherwise, lies in {-1, 0, +1}, and is the UTC calendar date minus the
\* local calendar date.
C6_UtcConversion ==
    tmPc \in {"converted", "added", "staggered"} =>
        /\ tmUtc.ok
        /\ IsHHMM(tmUtc.val.hhmm)
        /\ RefHour(tmUtc.val.hhmm) = (RefHour(tmLocal) + 5) % 24
        /\ RefMinute(tmUtc.val.hhmm) = RefMinute(tmLocal)
        /\ tmUtc.val.day_shift = (IF RefHour(tmLocal) >= 19 THEN 1 ELSE 0)
        /\ tmUtc.val.day_shift \in {-1, 0, 1}
        /\ tmUtc.val.day_shift = (RefMinutes(tmLocal) + 5 * 60) \div (24 * 60)

\* 22:00 local was converted: 03:00 UTC of the next day
C6_Witness ==
    /\ tmPc = "converted"
    /\ tmLocal = <<"2", "2", ":", "0", "0">>
    /\ tmUtc = Ok([hhmm |-> <<"0", "3", ":", "0", "0">>, day_shift |-> 1])

\* C7: adding n minutes to a UTC time t gives (60*HH + MM + n) mod 1440 as
\* HH:MM, so adding 0 gives t back; for every base wake time T0 the chain is
\* T1 = T0 + 5 and T2 = T0 + 7 modulo 24h; the overflow past midnight is
\* dropped: the results are plain times of day and the chain carries nothing
\* else, so no day overflow reaches the weekdays.
C7_StaggerChain ==
    /\ tmPc = "added" =>
          /\ tmPlus.ok
          /\ IsHHMM(tmPlus.val)
          /\ RefMinutes(tmPlus.val) = (RefMinutes(tmUtc.val.hhmm) + tmN) % (24 * 60)
          /\ tmN = 0 => tmPlus.val = tmUtc.val.hhmm
    /\ tmPc = "staggered" =>
          /\ tmChain.ok
          /\ DOMAIN tmChain.val = {"on_pg_hdfs", "on_pgbouncer", "on_deployments"}
          /\ tmChain.val.on_pg_hdfs = tmUtc.val.hhmm
          /\ IsHHMM(tmChain.val.on_pgbouncer)
          /\ IsHHMM(tmChain.val.on_deployments)
          /\ RefMinutes(tmChain.val.on_pgbouncer)
                 = (RefMinutes(tmUtc.val.hhmm) + 5) % (24 * 60)
          /\ RefMinutes(tmChain.val.on_deployments)
                 = (RefMinutes(tmUtc.val.hhmm) + 7) % (24 * 60)

\* the chain of T0 = 23:58 was computed: T1 = 00:03 and T2 = 00:05
C7_Witness ==
    /\ tmPc = "staggered"
    /\ tmUtc.val.hhmm = <<"2", "3", ":", "5", "8">>
    /\ tmChain.val.on_pgbouncer = <<"0", "0", ":", "0", "3">>
    /\ tmChain.val.on_deployments = <<"0", "0", ":", "0", "5">>

\* C8: for every accepted weekday spec s written with day names or day
\* indexes (single days, single ranges, comma lists, any case and accents),
\* kube_weekdays_to_human(human_weekdays_to_kube(s)) is a comma list of day
\* names that names exactly the days s denotes.
C8_RoundTrip ==
    (wdPc \in {"formatted", "expanded"} /\ wdKube.ok /\ RefWellFormed(wdRaw)) =>
        /\ wdHuman.ok
        /\ \A i \in 1..Len(wdHuman.val) : wdHuman.val[i] = "," \/ RefIsDay(wdHuman.val[i])
        /\ \A i \in 1..Len(wdHuman.val) : wdHuman.val[i] \notin Digits
        /\ RefNamedDays(wdHuman.val) = RefDays(wdRaw)

\* "SÁBADO-lunes" went through both conversions and came back as the names
\* of Saturday, Sunday and Monday
C8_Witness ==
    /\ wdPc = "formatted"
    /\ wdRaw = <<"SÁBADO", "-", "lunes">>
    /\ wdKube = Ok(<<"6", ",", "0", ",", "1">>)
    /\ wdHuman = Ok(<<"sábado", ",", "domingo", ",", "lunes">>)

\* C9: for every spec made of digits separated by "-" or ",",
\* human_weekdays_to_kube returns it unchanged but for the blanks, parsing
\* the result again returns the same, and the weekday set it denotes is a
\* set of indexes in 0..6 equal to the set the input denotes.
C9_NumericIdempotent ==
    (wdPc = "expanded" /\ RefNumeric(wdRaw)) =>
        /\ wdKube = Ok(RemoveSpaces(wdRaw))
        /\ wdKube2 = wdKube
        /\ wdExpandK.ok
        /\ wdExpand.ok
        /\ SeqSet(wdExpandK.val) \subseteq 0..6
        /\ SeqSet(wdExpandK.val) = SeqSet(wdExpand.val)

\* C10: a single range a-b whose end index is smaller than its start index
\* expands to a, a+1, ..., 6, 0, ..., b, never to nothing, for day-name
\* ranges and numeric ranges alike; 5 to 0 gives 5, 6, 0.
C10_CircularRange ==
    (wdPc = "expanded" /\ RefIsWrapRange(wdRaw)) =>
        LET t == RemoveSpaces(wdRaw)
            a == RefDayIndex(t[1])
            b == RefDayIndex(t[3])
        IN  /\ wdKube.ok
            /\ wdExpand = Ok(RefWrap(a, b))
            /\ wdExpandK = Ok(RefWrap(a, b))
            /\ wdExpand.val # <<>>
            /\ SeqSet(wdExpand.val) = RefRange(a, b)
            /\ (a = 5 /\ b = 0) => wdExpand.val = <<5, 6, 0>>
            /\ t[1] \notin Digits => wdKube.val = JoinNums(RefWrap(a, b))

\* the name range Friday to Sunday was expanded to 5, 6, 0
C10_Witness ==
    /\ wdPc = "expanded"
    /\ wdRaw = <<"Viernes", "-", "domingo">>
    /\ wdKube = Ok(<<"5", ",", "6", ",", "0">>)
    /\ wdExpand = Ok(<<5, 6, 0>>)

\* the set of days a comma list of digits holds
RefDigitSet(w) == {DigitVal(w[i]) : i \in {j \in 1..Len(w) : w[j] \in Digits}}

\* the digits of a comma list of digits are all different
RefNoDuplicates(w) ==
    \A i, j \in 1..Len(w) : (w[i] \in Digits /\ w[i] = w[j]) => i = j

\* C11: for every weekday spec the normalizer accepts,
\* _shift_weekdays_str(spec, 0) denotes exactly the weekday set the spec
\* denotes.
C11_ShiftIdentity ==
    (wdPc \in {"shifted", "shifted twice"} /\ wdA = 0) =>
        /\ wdExpandK.ok
        /\ wdShift1.ok
        /\ IsDigitList(wdShift1.val)
        /\ RefDigitSet(wdShift1.val) = SeqSet(wdExpandK.val)

\* C12: for every weekday spec on which the shift returns and all shifts a
\* and b, shifting by a and then by b yields the weekday set of shifting
\* once by (a+b) mod 7; a shift adds the amount to every member modulo 7 and
\* deduplicates.
C12_ShiftCompose ==
    wdPc = "shifted twice" =>
        /\ wdExpandK.ok
        /\ IsDigitList(wdShift1.val) /\ RefNoDuplicates(wdShift1.val)
        /\ RefDigitSet(wdShift1.val) = RefShifted(SeqSet(wdExpandK.val), wdA)
        /\ wdShift2.ok /\ wdShiftSum.ok
        /\ IsDigitList(wdShift2.val) /\ RefNoDuplicates(wdShift2.val)
        /\ IsDigitList(wdShiftSum.val) /\ RefNoDuplicates(wdShiftSum.val)
        /\ RefDigitSet(wdShift2.val) = RefDigitSet(wdShiftSum.val)
        /\ RefDigitSet(wdShift2.val)
               = RefShifted(RefShifted(SeqSet(wdExpandK.val), wdA), wdB)

\* Friday to Sunday shifted by 5 and then by 4, and once by 9 mod 7 = 2:
\* Sunday to Tuesday both ways
C12_Witness ==
    /\ wdPc = "shifted twice"
    /\ wdRaw = <<"Viernes", "-", "domingo">>
    /\ wdA = 5 /\ wdB = 4
    /\ wdShift1 = Ok(<<"3", ",", "4", ",", "5">>)
    /\ wdShift2 = Ok(<<"0", ",", "1", ",", "2">>)
    /\ wdShiftSum = Ok(<<"0", ",", "1", ",", "2">>)

\* the pieces of an item between its "-"
RefPieces(it) == Split(it, "-")

\* an item with a piece that holds letters and is no day name
RefBadItem(it) ==
    \E k \in 1..Len(RefPieces(it)) :
        LET piece == RefPieces(it)[k] IN
        HasLetter(piece) /\ ~(Len(piece) = 1 /\ RefIsDay(piece[1]))

RefHasBadToken(s) == \E i \in 1..Len(RefItems(s)) : RefBadItem(RefItems(s)[i])

\* a comma list of day names and day-name ranges
RefNameList(s) ==
    /\ RefItems(s) # <<>>
    /\ \A i \in 1..Len(RefItems(s)) :
          RefItemOk(RefItems(s)[i]) /\ RefItems(s)[i][1] \notin Digits

\* C13: human_weekdays_to_kube fails with an error when a token is no day
\* name (whatever its case and accents) and not purely numeric, a name range
\* with an unrecognized endpoint included, and the error names an item of
\* the spec; it accepts the numeric form and every comma list of day names
\* and day-name ranges, which it turns into the digits of the days denoted.
C13_ParseErrors ==
    wdPc \notin {"idle", "input"} =>
        /\ RefHasBadToken(wdRaw) =>
              /\ ~wdKube.ok
              /\ \E i \in 1..Len(RefItems(wdRaw)) :
                    wdKube.val = _strip_accents(Lower(RefItems(wdRaw)[i]))
        /\ RefNumeric(wdRaw) => wdKube.ok
        /\ RefNameList(wdRaw) =>
              /\ wdKube.ok
              /\ IsDigitList(wdKube.val)
              /\ RefDigitSet(wdKube.val) = RefDays(wdRaw)

\* the range "lunes-lunez" was refused for its second endpoint
C13_Witness ==
    /\ wdPc = "parsed"
    /\ wdRaw = <<"lunes", "-", "lunez">>
    /\ wdKube = Err(<<"lunes", "-", "lunez">>)


-----------------------------------------------------------------------------
(* The namespace filter.                                                   *)

RefGroups == {"datastores", "apps", "rocket", "intelligence", "airflowsso"}

\* the group a token names once lower-cased, "" when it names none
RefGroupOf(w) ==
    IF w \in RefGroups THEN w
    ELSE IF w = "APPS" THEN "apps"
    ELSE IF w = "Rocket" THEN "rocket"
    ELSE ""

RefIsSep(c) == c \in {",", " "}

\* the positions where a token (a maximal run without separators) starts
RefTokenStarts(s) ==
    {i \in 1..Len(s) : ~RefIsSep(s[i]) /\ (i = 1 \/ RefIsSep(s[i - 1]))}

\* the token that starts at i is a single word naming a group
RefValidAt(s, i) ==
    /\ RefGroupOf(s[i]) # ""
    /\ (i = Len(s) \/ RefIsSep(s[i + 1]))

RefValidGroups(s) == {RefGroupOf(s[i]) : i \in {j \in RefTokenStarts(s) : RefValidAt(s, j)}}

RefDropped(s) == {i \in RefTokenStarts(s) : ~RefValidAt(s, i)}

RefNsText == IF nsArg = <<>> THEN <<>> ELSE nsArg[1]

\* C15: normalize_namespaces returns exactly the valid groups named by the
\* tokens of the argument (compared lower-cased), warns once for every other
\* token and never about a valid one, and returns all five groups only when
\* the argument is empty or names no valid group (or names all five).
C15_UnknownNamespace ==
    nsPc \in {"normalized", "listed"} =>
        /\ nsSel = IF RefValidGroups(RefNsText) = {} THEN RefGroups ELSE RefValidGroups(RefNsText)
        /\ Len(nsWarn) = Cardinality(RefDropped(RefNsText))
        /\ \A i \in 1..Len(nsWarn) : ~(Len(nsWarn[i]) = 1 /\ nsWarn[i][1] \in RefGroups)

C15_Witness ==
    /\ nsPc = "normalized"
    /\ nsArg = <<(<<"APPS", ",", "lunez">>)>>
    /\ nsSel = {"apps"}
    /\ nsWarn = <<(<<"lunez">>)>>

-----------------------------------------------------------------------------
(* Object names.                                                           *)

\* the group whose namespace an object lives in, "" when it is none
RefGroupOfObject(o) ==
    IF \E g \in RefGroups : o.metadata.namespace = args.tenant \o "-" \o g
    THEN CHOOSE g \in RefGroups : o.metadata.namespace = args.tenant \o "-" \o g
    ELSE ""

RefFlag(o, f) == f \in DOMAIN o.spec /\ o.spec[f]

\* the role of an object, read from what it schedules and not from its name
RefRole(o) ==
    IF IsCombined(o) THEN "both"
    ELSE IF PairRole(o) = "sleep" THEN "sleep"
    ELSE IF RefGroupOfObject(o) # "datastores" THEN "wake"
    ELSE IF RefFlag(o, "suspendStatefulSetsPostgres") THEN "wake pg-hdfs"
    ELSE IF RefFlag(o, "suspendDeploymentsPgbouncer") /\ ~RefFlag(o, "suspendDeployments")
         THEN "wake pgbouncer"
    ELSE "wake"

RefRolePrefix(role) ==
    IF role = "both" THEN "" ELSE IF role = "sleep" THEN "sleep-" ELSE "wake-"

RefSubrole(role) ==
    IF role = "wake pg-hdfs" THEN "-pg-hdfs"
    ELSE IF role = "wake pgbouncer" THEN "-pgbouncer"
    ELSE ""

\* the names of the documented form for a tenant and a group
RefPatternNames(tenant, g) ==
    {p \o tenant \o "-" \o g \o s :
        p \in {"", "sleep-", "wake-"}, s \in {"", "-pg-hdfs", "-pgbouncer"}}

\* the name the program gives: datastores objects are named after the
\* deployments of the tenant, every other object after its namespace
RefName(tenant, g, role) ==
    IF g = "datastores"
    THEN RefRolePrefix(role) \o "ds-deploys-" \o tenant \o RefSubrole(role)
    ELSE RefRolePrefix(role) \o tenant \o "-" \o g

RefNamesOf(os) == [i \in 1..Len(os) |-> os[i].metadata.name]

\* C16 as stated: every emitted object's name has the form
\* {role-prefix}{tenant}-{group}[-subrole] with the role prefix empty,
\* "sleep-" or "wake-".
C16_NameForm ==
    Generated =>
        \A i \in 1..Len(objs) :
            objs[i].metadata.name \in RefPatternNames(args.tenant, RefGroupOfObject(objs[i]))

\* C16 amended: every emitted object's name is a function of tenant, group
\* and role only: {role-prefix}{tenant}-{group} for apps, rocket,
\* intelligence and airflowsso, and {role-prefix}ds-deploys-{tenant}[-subrole]
\* for datastores; no two emitted objects share a name, and generating again
\* for the same arguments, on any reference date, yields the same names.
C16_NameScheme ==
    Generated =>
        /\ \A i \in 1..Len(objs) :
              /\ RefGroupOfObject(objs[i]) # ""
              /\ objs[i].metadata.name =
                     RefName(args.tenant, RefGroupOfObject(objs[i]), RefRole(objs[i]))
        /\ \A i, j \in 1..Len(objs) :
              objs[i].metadata.name = objs[j].metadata.name => i = j
        /\ \A today \in Days :
              RefNamesOf(make_all_objects_for_tenant(args, today).objs) = RefNamesOf(objs)

\* a run that emitted the datastores four and a split pair for apps
C16_Witness ==
    /\ Generated
    /\ args.tenant = "acme"
    /\ RefNamesOf(objs) = << "sleep-ds-deploys-acme", "wake-ds-deploys-acme-pg-hdfs",
                             "wake-ds-deploys-acme-pgbouncer", "wake-ds-deploys-acme",
                             "sleep-acme-apps", "wake-acme-apps" >>

-----------------------------------------------------------------------------
(* Namespace selection.                                                    *)

\* the groups the filter of the run names; all five when it names none
RefSelection ==
    IF args.namespaces = <<>> \/ RefValidGroups(args.namespaces[1]) = {}
    THEN RefGroups
    ELSE RefValidGroups(args.namespaces[1])

RefGroupRank(g) ==
    CASE g = "datastores" -> 1
      [] g = "apps" -> 2
      [] g = "rocket" -> 3
      [] g = "intelligence" -> 4
      [] g = "airflowsso" -> 5
      [] OTHER -> 0

\* C17: every emitted object lives in the namespace {tenant}-{group} of a
\* selected group, every selected group has at least one object, and the
\* objects come in the order datastores, apps, rocket, intelligence,
\* airflowsso whatever the order of the filter.
C17_NamespaceSelection ==
    Generated =>
        /\ \A i \in 1..Len(objs) : RefGroupOfObject(objs[i]) \in RefSelection
        /\ \A g \in RefSelection : \E i \in 1..Len(objs) : RefGroupOfObject(objs[i]) = g
        /\ \A i, j \in 1..Len(objs) :
              i < j => RefGroupRank(RefGroupOfObject(objs[i])) <= RefGroupRank(RefGroupOfObject(objs[j]))

\* the filter named apps before datastores; datastores objects come first
C17_Witness ==
    /\ Generated
    /\ args.namespaces = <<(<<"APPS", ",", "datastores">>)>>
    /\ Len(objs) >= 5
    /\ RefGroupOfObject(objs[1]) = "datastores"
    /\ RefGroupOfObject(objs[Len(objs)]) = "apps"

-----------------------------------------------------------------------------
(* Exclusion policy.                                                       *)

\* the six label matchers for resources the operators manage
RefOperatorLabels ==
    << <<"app.kubernetes.io/managed-by", "postgres-operator">>,
       <<"postgres.stratio.com/cluster", "true">>,
       <<"app.kubernetes.io/part-of", "postgres">>,
       <<"app.kubernetes.io/managed-by", "hdfs-operator">>,
       <<"hdfs.stratio.com/cluster", "true">>,
       <<"app.kubernetes.io/part-of", "hdfs">> >>

\* an exclusion list is the given list of label matchers, one label each
RefExcludes(o, labels) ==
    /\ "excludeRef" \in DOMAIN o.spec
    /\ Len(o.spec.excludeRef) = Len(labels)
    /\ \A i \in 1..Len(labels) :
          /\ DOMAIN o.spec.excludeRef[i] = {"matchLabels"}
          /\ DOMAIN o.spec.excludeRef[i].matchLabels = {labels[i][1]}
          /\ o.spec.excludeRef[i].matchLabels[labels[i][1]] = labels[i][2]

-----------------------------------------------------------------------------
(* Runs on a cluster.                                                      *)

\* a weekday option of the run is not a well-formed weekday spec
RefMalformedInput ==
    \/ ~RefWellFormed(args.weekdays)
    \/ args.sleepdays # <<>> /\ ~RefWellFormed(args.sleepdays[1])
    \/ args.wakedays # <<>> /\ ~RefWellFormed(args.wakedays[1])

\* the run ended with an error before it built, wrote, printed or called anything
RefAborted ==
    /\ pc = "exited"
    /\ exitCode = "1"
    /\ stderr # <<>>
    /\ objs = <<>>
    /\ yaml = <<>>
    /\ output = <<>>
    /\ calls = <<>>

\* C14: a run whose weekdays, sleepdays or wakedays is malformed reports the
\* error and ends with status 1 before any object is built, any YAML is
\* written or printed and any kubectl call is made.
C14_MalformedAborts == (pc # "start" /\ RefMalformedInput) => RefAborted

RefApplyCalls == {i \in 1..Len(calls) : calls[i].verb = "apply"}

RefDeleteCalls == {i \in 1..Len(calls) : calls[i].verb = "delete"}

\* the YAML went to stdout, or to {outdir}/{tenant}.sleepinfos.yaml
RefYamlDelivered ==
    IF args.outdir = <<>>
    THEN output = << [to |-> "stdout", what |-> "yaml", path |-> <<>>, docs |-> yaml] >>
    ELSE /\ Len(output) = 2
         /\ output[1].to = "file"
         /\ output[1].path = args.outdir[1] \o <<"/", args.tenant \o ".sleepinfos.yaml">>
         /\ output[1].docs = yaml
         /\ output[2].to = "stdout" /\ output[2].docs = <<>>

\* C18: without --apply no step of create or update calls kubectl or changes
\* the cluster, and the run ends with status 0 once the YAML of the generated
\* objects is printed or written to {tenant}.sleepinfos.yaml.
C18_GenerateOnly ==
    [][ ~args.apply =>
          /\ calls' = <<>>
          /\ cluster' = cluster
          /\ pc' \in {"generated", "rendered", "exited"}
          /\ pc' = "rendered" =>
                (exitCode' = "0" /\ Len(yaml') = Len(objs') /\ Len(yaml') > 0 /\ RefYamlDelivered') ]_vars

\* a create without --apply wrote the file and left a cluster with stale
\* objects alone
C18_Witness ==
    /\ pc = "rendered"
    /\ ~args.apply
    /\ args.outdir = <<(<<"out">>)>>
    /\ output[1].path = <<"out", "/", "acme.sleepinfos.yaml">>
    /\ calls = <<>>
    /\ "legacy" \in cluster["acme-apps"].sleepinfos
    /\ <<"sleepinfo-", "legacy">> \in cluster["acme-apps"].secrets

\* C19: when kubectl apply fails, its output is surfaced, the run ends with
\* status 1 and the apply is the last kubectl call, so nothing is listed or
\* deleted; a delete is only ever issued after the one successful apply, and
\* the deletes of reconcile_sleepinfos come before the listing of Secrets
\* that starts cleanup_orphan_secrets.
C19_ApplyFailureFatal ==
    /\ Cardinality(RefApplyCalls) <= 1
    /\ \A i \in RefApplyCalls :
          ~calls[i].ok =>
              /\ i = Len(calls)
              /\ RefDeleteCalls = {}
              /\ pc = "exited"
              /\ exitCode = "1"
              /\ stderr # <<>> /\ stderr[1] = "kubectl stderr"
              /\ output[Len(output)].what = "kubectl stdout"
    /\ \A i \in RefDeleteCalls : \E j \in RefApplyCalls : j < i /\ calls[j].ok
    /\ \A i \in RefDeleteCalls : \A j \in 1..Len(calls) :
          (calls[i].kind = "sleepinfo" /\ calls[j].kind = "secrets") => i < j
    /\ pc \in {"applied", "reconciled", "done"} => \E j \in RefApplyCalls : calls[j].ok

\* kubectl apply failed for a missing namespace after it applied the pair of
\* apps; the stale object of apps and its Secret are still there
C19_Witness ==
    /\ pc = "exited"
    /\ RefApplyCalls # {}
    /\ ~calls[Len(calls)].ok
    /\ ~cluster["acme-datastores"].exists
    /\ cluster["acme-apps"].sleepinfos = {"acme-apps", "sleep-acme-apps", "wake-acme-apps"}
    /\ <<"sleepinfo-", "acme-apps">> \in cluster["acme-apps"].secrets

-----------------------------------------------------------------------------
(* Weekdays and times of the emitted objects.                              *)

\* C21: the weekdays of every sleep object are the local sleep days shifted
\* by the day shift of the off time, the weekdays of every wake object are
\* the local wake days shifted by the day shift of the on time, a combined
\* object carries the set both sides agree on, and a side whose option is
\* omitted takes its local days from --weekdays.
C21_IndependentShifts ==
    (Generated /\ RefWellFormed(EffSleep) /\ RefWellFormed(EffWake)) =>
        \A i \in 1..Len(objs) :
            /\ IsDigitList(objs[i].spec.weekdays)
            /\ PairRole(objs[i]) = "sleep" =>
                  WeekdaySet(objs[i]) = RefShifted(RefDays(EffSleep), RefDayShift(args.off))
            /\ PairRole(objs[i]) = "wake" =>
                  WeekdaySet(objs[i]) = RefShifted(RefDays(EffWake), RefDayShift(args.on))
            /\ IsCombined(objs[i]) =>
                  /\ WeekdaySet(objs[i]) = RefSleepUtc
                  /\ WeekdaySet(objs[i]) = RefWakeUtc

\* sleep on Friday at 03:00 (no shift), wake Monday to Friday at 23:30
\* (shift +1): the sleep objects stay on Friday, the wake objects move to
\* Tuesday..Saturday
C21_Witness ==
    /\ pc = "generated"
    /\ args.weekdays = <<"lunes", "-", "viernes">>
    /\ args.sleepdays = Some(<<"Viernes">>)
    /\ args.wakedays = None
    /\ args.off = <<"0", "3", ":", "0", "0">>
    /\ args.on = <<"2", "3", ":", "3", "0">>
    /\ Len(NsObjs("apps")) = 2
    /\ NsObjs("apps")[1].spec.weekdays = <<"5">>
    /\ WeekdaySet(NsObjs("apps")[2]) = {2, 3, 4, 5, 6}

RefToggles ==
    {"suspendDeployments", "suspendStatefulSets", "suspendCronJobs",
     "suspendDeploymentsPgbouncer", "suspendStatefulSetsPostgres", "suspendStatefulSetsHdfs"}

\* the toggles an object switches on
RefOn(o) == {f \in RefToggles : RefFlag(o, f)}

\* an object that acts at a time of day, given in minutes, and has no wakeUpAt
RefActsAt(o, minutes) ==
    /\ "wakeUpAt" \notin DOMAIN o.spec
    /\ IsHHMM(o.spec.sleepAt)
    /\ RefMinutes(o.spec.sleepAt) = minutes % (24 * 60)

RefSameToggles(a, b) ==
    \A f \in RefToggles :
        /\ (f \in DOMAIN a.spec) = (f \in DOMAIN b.spec)
        /\ f \in DOMAIN a.spec => a.spec[f] = b.spec[f]

RefSameExclusions(a, b) ==
    /\ ("excludeRef" \in DOMAIN a.spec) = ("excludeRef" \in DOMAIN b.spec)
    /\ "excludeRef" \in DOMAIN a.spec => a.spec.excludeRef = b.spec.excludeRef

\* C23: every object of a selected simple group sleeps at the UTC off time
\* and wakes at T2 = T0 + 7 minutes, T0 being the UTC on time: the combined
\* object has T2 in wakeUpAt, the wake object of a pair has T2 in sleepAt,
\* and the wake object of a pair has the toggles and the exclusion list of
\* its sleep object.
C23_SimpleGroupTimes ==
    Generated =>
        \A g \in SimpleGroups \cap RefSelection :
            LET os == NsObjs(g)
                T2 == (RefUtcMinutes(args.on) + 7) % (24 * 60)
            IN  \/ /\ Len(os) = 1
                   /\ IsCombined(os[1])
                   /\ IsHHMM(os[1].spec.sleepAt) /\ IsHHMM(os[1].spec.wakeUpAt)
                   /\ RefMinutes(os[1].spec.sleepAt) = RefUtcMinutes(args.off)
                   /\ RefMinutes(os[1].spec.wakeUpAt) = T2
                \/ /\ Len(os) = 2
                   /\ \E s, w \in 1..2 :
                         /\ PairRole(os[s]) = "sleep" /\ PairRole(os[w]) = "wake"
                         /\ RefActsAt(os[s], RefUtcMinutes(args.off))
                         /\ RefActsAt(os[w], T2)
                         /\ RefSameToggles(os[s], os[w])
                         /\ RefSameExclusions(os[s], os[w])

\* on 23:30 local is 04:30 UTC: the pair of airflowsso wakes at 04:37 with
\* the Postgres toggle on both sides
C23_Witness ==
    /\ pc = "generated"
    /\ args.on = <<"2", "3", ":", "3", "0">>
    /\ Len(NsObjs("airflowsso")) = 2
    /\ NsObjs("airflowsso")[2].spec.sleepAt = <<"0", "4", ":", "3", "7">>
    /\ RefOn(NsObjs("airflowsso")[2])
           = {"suspendDeployments", "suspendStatefulSets", "suspendCronJobs",
              "suspendStatefulSetsPostgres"}
    /\ RefOn(NsObjs("airflowsso")[1]) = RefOn(NsObjs("airflowsso")[2])

-----------------------------------------------------------------------------
(* Reconciliation and orphan cleanup.                                      *)

\* the groups reconcile_sleepinfos and cleanup_orphan_secrets are told to
\* work on: the tokens of the filter that name a group as written, every
\* group when no filter is given
RefTargetGroups ==
    IF args.namespaces = <<>> THEN RefGroups
    ELSE LET s == args.namespaces[1] IN
         {s[i] : i \in {j \in RefTokenStarts(s) :
                           s[j] \in RefGroups /\ (j = Len(s) \/ RefIsSep(s[j + 1]))}}

RefTargetNamespaces == {args.tenant \o "-" \o g : g \in RefTargetGroups}

RefDesiredNames == {objs[i].metadata.name : i \in 1..Len(objs)}

\* the positions of log where a listing of kind in ns succeeded
RefListed(log, ns, kind) ==
    {i \in 1..Len(log) :
        log[i].verb = "get" /\ log[i].ns = ns /\ log[i].kind = kind /\ log[i].ok}

RefIsDelete(c, ns, kind, name) ==
    c.verb = "delete" /\ c.ns = ns /\ c.kind = kind /\ c.name = name

\* what reconcile_sleepinfos did, given the cluster it started on and the
\* kubectl calls it made
RefReconciledExactly(cl, log) ==
    /\ \A ns \in RefTargetNamespaces :
          RefListed(log, ns, "sleepinfo") # {} =>
              \A name \in cl[ns].sleepinfos \ RefDesiredNames :
                  \E i \in 1..(Len(log) - 1) :
                      /\ RefIsDelete(log[i], ns, "sleepinfo", <<name>>)
                      /\ RefIsDelete(log[i + 1], ns, "secret", <<"sleepinfo-", name>>)
    /\ \A i \in 1..Len(log) :
          log[i].verb = "delete" =>
              /\ log[i].ns \in RefTargetNamespaces
              /\ \E j \in RefListed(log, log[i].ns, "sleepinfo") : j < i
              /\ log[i].kind = "sleepinfo" =>
                    /\ Len(log[i].name) = 1
                    /\ log[i].name[1] \notin RefDesiredNames
                    /\ log[i].name[1] \in cl[log[i].ns].sleepinfos
              /\ log[i].kind # "sleepinfo" =>
                    /\ log[i].kind = "secret"
                    /\ i > 1
                    /\ log[i - 1].verb = "delete" /\ log[i - 1].kind = "sleepinfo"
                    /\ log[i - 1].ns = log[i].ns
                    /\ log[i].name = <<"sleepinfo-">> \o log[i - 1].name
    /\ \A i \in 1..Len(log) : log[i].verb = "get" => log[i].kind = "sleepinfo"

\* C24: on every cluster, reconcile_sleepinfos deletes, in each namespace it
\* is told to work on and could list, every SleepInfo whose name is not a
\* generated name and then the Secret sleepinfo-{name}; it deletes no
\* SleepInfo of a generated name, and nothing in a namespace outside its
\* targets or in one whose listing failed.
C24_ReconcileExactly ==
    [][ (pc = "applied" /\ pc' = "reconciled") =>
            RefReconciledExactly(cluster, SubSeq(calls', Len(calls) + 1, Len(calls'))) ]_vars

\* reconcile removed the stale SleepInfo of apps and its Secret, and left the
\* stale one of datastores alone because that listing failed
C24_Witness ==
    /\ pc = "reconciled"
    /\ \E i \in 1..(Len(calls) - 1) :
          /\ RefIsDelete(calls[i], "acme-apps", "sleepinfo", <<"legacy">>) /\ calls[i].ok
          /\ RefIsDelete(calls[i + 1], "acme-apps", "secret", <<"sleepinfo-", "legacy">>)
    /\ "legacy" \notin cluster["acme-apps"].sleepinfos
    /\ \E j \in 1..Len(calls) :
          /\ calls[j].verb = "get" /\ calls[j].kind = "sleepinfo"
          /\ calls[j].ns = "acme-datastores" /\ ~calls[j].ok
    /\ cluster["acme-datastores"].exists
    /\ "legacy" \in cluster["acme-datastores"].sleepinfos

\* the position of the first listing of Secrets: cleanup_orphan_secrets made
\* the calls from there on
RefCleanupStart ==
    IF \E i \in 1..Len(calls) : calls[i].verb = "get" /\ calls[i].kind = "secrets"
    THEN CHOOSE i \in 1..Len(calls) :
             /\ calls[i].verb = "get" /\ calls[i].kind = "secrets"
             /\ \A j \in 1..(i - 1) : ~(calls[j].verb = "get" /\ calls[j].kind = "secrets")
    ELSE Len(calls) + 1

\* cleanup_orphan_secrets deletes no SleepInfo, so the SleepInfos of a
\* namespace after it are those of listing time
RefCleanupDeletesOnlyOrphans ==
    \A i \in RefCleanupStart..Len(calls) :
        calls[i].verb = "delete" =>
            /\ calls[i].kind = "secret"
            /\ Len(calls[i].name) = 2
            /\ calls[i].name[1] = "sleepinfo-"
            /\ calls[i].name[2] \notin cluster[calls[i].ns].sleepinfos

RefAllCallsSucceeded == \A i \in 1..Len(calls) : calls[i].ok

RefOrphans(ns) ==
    {s \in cluster[ns].secrets :
        Len(s) = 2 /\ s[1] = "sleepinfo-" /\ s[2] \notin cluster[ns].sleepinfos}

\* C25: cleanup_orphan_secrets deletes a Secret only when its name is
\* sleepinfo-X and the namespace holds no SleepInfo X; and when every kubectl
\* call of apply, reconcile and cleanup succeeded, no namespace they worked on
\* is left with such an orphan.
C25_OnlyOrphans ==
    pc = "done" =>
        /\ RefCleanupDeletesOnlyOrphans
        /\ RefAllCallsSucceeded =>
               \A ns \in RefTargetNamespaces : RefOrphans(ns) = {}

\* the part of C25 about the run in which no kubectl call fails
C25_CleanRunLeavesNoOrphan ==
    (pc = "done" /\ RefAllCallsSucceeded) =>
        /\ RefCleanupDeletesOnlyOrphans
        /\ \A ns \in RefTargetNamespaces : RefOrphans(ns) = {}

\* the day numbers of a comma list of digits, in order
RefListed7(w) == [i \in 1..((Len(w) + 1) \div 2) |-> w[2 * i - 1]]

\* C26: every emitted object has a weekdays field that is a non-empty comma
\* list of pairwise distinct day numbers 0..6, whatever the day inputs and
\* the off and on times, and the time zone UTC.
C26_WeekdaysField ==
    Generated =>
        \A i \in 1..Len(objs) :
            LET w == objs[i].spec.weekdays IN
            /\ w # <<>>
            /\ Len(w) % 2 = 1
            /\ \A j \in 1..Len(w) :
                  IF j % 2 = 1 THEN w[j] \in {"0", "1", "2", "3", "4", "5", "6"}
                  ELSE w[j] = ","
            /\ \A j, k \in 1..Len(RefListed7(w)) :
                  j # k => RefListed7(w)[j] # RefListed7(w)[k]
            /\ objs[i].spec.timeZone = "UTC"

\* objects were emitted for a day spec of nothing but a comma: every one of
\* them carries all seven days
C26_Witness ==
    /\ Generated
    /\ objs # <<>>
    /\ args.weekdays = <<",">> /\ args.sleepdays = None /\ args.wakedays = None
    /\ args.off = Text(22, 0)
    /\ \A i \in 1..Len(objs) :
          objs[i].spec.weekdays =
              <<"1", ",", "2", ",", "3", ",", "4", ",", "5", ",", "6", ",", "0">>

\* the namespaces the run generated objects for
RefGeneratedNamespaces == {objs[i].metadata.namespace : i \in 1..Len(objs)}

\* the namespaces reconcile_sleepinfos listed: it alone lists SleepInfos
\* before the first listing of Secrets
RefReconcileExamined ==
    {calls[i].ns : i \in {j \in 1..Len(calls) :
        j < RefCleanupStart /\ calls[j].verb = "get" /\ calls[j].kind = "sleepinfo"}}

\* the namespaces cleanup_orphan_secrets listed the Secrets of
RefCleanupExamined ==
    {calls[i].ns : i \in {j \in 1..Len(calls) :
        calls[j].verb = "get" /\ calls[j].kind = "secrets"}}

\* C27: after create or update with --apply, the namespaces objects were
\* generated and applied for are the namespaces reconcile_sleepinfos
\* examined and the namespaces cleanup_orphan_secrets examined, whatever the
\* --namespaces value.
C27_ScopesAgree ==
    pc = "done" =>
        /\ RefReconcileExamined = RefGeneratedNamespaces
        /\ RefCleanupExamined = RefGeneratedNamespaces

\* the part of C27 that holds: the scopes agree when the filter names the
\* same groups as written and in lower case (or is absent)
C27_ScopesAgreeLowerCase ==
    (pc = "done" /\ RefTargetGroups = RefSelection) =>
        /\ RefReconcileExamined = RefGeneratedNamespaces
        /\ RefCleanupExamined = RefGeneratedNamespaces

=============================================================================
